---- MODULE Spec2Model ----
(***************************************************************************)
(* Model of the request-dispatch pipeline of gen-serving-gateway:          *)
(*   queue/request_queue.rs   RequestQueue (submit, process_requests)      *)
(*   gateway/load_balancer.rs LoadBalancer (select_backend and strategies) *)
(*   gateway/health_check.rs  HealthCheckManager (probe task, check_now)   *)
(*   backend/traits.rs        BackendEndpoint (mark_healthy/unhealthy)     *)
(*   backend/http_backend.rs  HttpBackend (endpoint cursor and marking)    *)
(*   backend/grpc_backend.rs  GrpcBackend (get_channel, generate)          *)
(*   gateway/router.rs        Router (route and its rules)                 *)
(*   queue/batcher.rs         Batcher (add_request, process_batch)         *)
(* Time is discrete: one Tick is one unit of the tokio clock, and a timer  *)
(* armed by tokio::time::timeout fires before the clock passes it.         *)
(***************************************************************************)
EXTENDS Integers, Sequences, FiniteSets, TLC

\* ------------------------------------------------------------------ bounds
\* number of submit calls (one request per caller; request id = caller id)
NumCallers == 2
\* QueueConfig values the queue is constructed with: max_queue_size is 1
\* or MaxQueueSize, max_concurrent and timeout_ms are fixed
MaxQueueSize == 2
MaxConcurrent == 1
MaxTimeoutMs == 1
\* caps on the unbounded counters of the load balancer / health checker
MaxSelections == 3
MaxCount == 3
MaxWeight == 2
\* number of endpoints of the HTTP backend whose endpoint health is modelled
NumEndpoints == 3
\* largest backend weight, and number of selections, of the runs in which
\* the selections of each backend are counted
MaxWrrWeight == 5
MaxTally == 9
NumBatchRequests == 2
MaxBatchSize == 2
MaxWaitMs == 1
NumProcessors == 2
NumLockTasks == 2
NumSelectors == 2
MaxPicks == 5
MaxStarts == 4
NumGrpcEndpoints == 2
NumGrpcCallers == 2
MaxDials == 3
IntBits == 4
MaxListLen == 3

Callers == 1..NumCallers

\* ---------------------------------------------------------------- registry
\* BackendRegistry::get_all(): the registered backends, in iteration order
get_all == <<"A", "B">>

BackendNames == {get_all[i] : i \in 1..Len(get_all)}

\* BackendRegistry::get(name): Some(backend) iff the name is registered
registry_get(name) == IF name \in BackendNames THEN name ELSE "None"

\* names a caller may pass: no name, a registered one, an unregistered one
NameArgs == {"None", "A", "ghost"}

\* names passed to submit: no name, or an unregistered one
QueueNameArgs == {"None", "ghost"}

Strategies == {"RoundRobin", "WeightedRoundRobin", "Random", "LeastConnections"}

VARIABLES
    \* --- backends (HttpBackend / GrpcBackend fields read by the gateway)
    enabled,            \* [BackendNames -> BOOLEAN]   is_enabled()
    weight,             \* [BackendNames -> 1..MaxWeight]  weight()
    endpoints,          \* HttpBackend.endpoints: BackendEndpoint per index
    ep_hist,            \* per endpoint: results recorded since the last
                        \* result of the other kind
    \* --- LoadBalancer
    strategy,           \* LoadBalancer.strategy
    round_robin_index,  \* LoadBalancer.round_robin_index
    weighted_state,     \* LoadBalancer.weighted_state
    last_sel,           \* outcome of the latest direct select_backend call
    sel_count,          \* [BackendNames -> Nat]: selections per backend
    \* --- HealthCheckManager
    health_status,      \* HealthCheckManager.health_status (the manager's map)
    task_status,        \* the map captured by the background task in start()
    check_task,         \* "None" | "Running": HealthCheckManager.check_task
    probe_idx,          \* position of the probe loop in registry.get_all()
    last_event,         \* the latest health event: its kind, backend, answer
    \* --- RequestQueue
    config,             \* RequestQueue.config (QueueConfig)
    pending_count,      \* RequestQueue.pending_count
    pc,                 \* position of each submit call
    backend_name,       \* backend_name argument of each submit call
    result,             \* value returned by each submit call
    elapsed,            \* clock units since the call armed its timeout
    request_ch,         \* mpsc channel request_tx/request_rx (buffer)
    response_ch,        \* one oneshot channel per QueuedRequest
    permits,            \* available permits of the semaphore
    wpc,                \* position of the worker task of each request
    wbackend,           \* backend chosen by the worker
    welapsed,           \* clock units since the worker armed its timeout
    enq_log,            \* requests in the order submit enqueued them
    deq_log,            \* requests in the order the dispatcher dequeued them
    \* --- Router
    router,             \* Router.config, and the latest route call
    \* --- Batcher
    batcher,            \* Batcher.config, pending_requests, last_batch_time
    bproc,              \* position of each process_batch call
    bobs,               \* what the callers of the batcher have observed
    \* --- lock discipline
    lock_task,          \* per task: its function, position and held locks
    \* --- HttpBackend
    http,               \* the endpoint cursor, and what its callers saw
    gen,                \* the running HttpBackend::generate call
    \* --- HealthCheckManager::start / stop
    monitor,            \* check_task and the probe tasks spawned so far
    \* --- GrpcBackend
    grpc,               \* channel cache, endpoints, servers and running calls
    \* --- BatchProcessor::run
    driver,             \* the driving loop of the batcher
    \* --- the build, and calls of functions on given arguments
    overflow_checks,    \* the build panics on integer overflow
    wrr_call,           \* the latest select_weighted_round_robin call
    coalesce            \* the latest combine_requests / split_response

lbVars == <<strategy, round_robin_index, weighted_state, last_sel>>
hcVars == <<health_status, task_status, check_task, probe_idx, last_event>>
beVars == <<enabled, weight>>
epVars == <<endpoints, ep_hist>>
callerVars == <<config, pending_count, pc, backend_name, result, elapsed>>
chanVars == <<request_ch, response_ch, enq_log, deq_log>>
workerVars == <<permits, wpc, wbackend, welapsed>>
queueVars == <<callerVars, chanVars, workerVars>>
\* the components that the queue, the load balancer and the health checker
\* never write
batchVars == <<batcher, bproc, bobs>>
lockVars == <<lock_task>>
httpVars == <<http>>
genVars == <<gen>>
monitorVars == <<monitor>>
grpcVars == <<grpc>>
driverVars == <<driver>>
pureVars == <<overflow_checks, wrr_call, coalesce>>
restVars == <<monitorVars, grpcVars, driverVars, pureVars>>
sideVars == <<router, batchVars, lockVars, httpVars, genVars, restVars>>
\* everything but the endpoints and the calls made on them
coreVars == <<beVars, lbVars, sel_count, hcVars, queueVars, router, batchVars,
              lockVars>>
vars == <<beVars, sideVars, epVars, lbVars, sel_count, hcVars, queueVars>>

\* ------------------------------------------------------------------ errors
Err(kind, detail, req) == [kind |-> kind, detail |-> detail, req |-> req]

NoResult == Err("None", "", 0)
\* AppError::Internal("Request queue is full"): the queue-full error
QueueFull == Err("Internal", "Request queue is full", 0)
SubmitTimedOut == Err("Timeout", "Request timed out", 0)
BackendNotFound(name) == Err("BackendNotFound", name, 0)
NoHealthyBackends(scope) == Err("NoHealthyBackends", scope, 0)

\* the sum of f over the set S
RECURSIVE SumOver(_, _)
SumOver(f, S) ==
    IF S = {} THEN 0
    ELSE LET x == CHOOSE y \in S : TRUE IN f[x] + SumOver(f, S \ {x})

\* ------------------------------------------------------------ LoadBalancer
\* LoadBalancer::get_healthy_backends
get_healthy_backends == SelectSeq(get_all, LAMBDA b : enabled[b])

\* LoadBalancer::select_round_robin: fetch_add(1) then index % len
select_round_robin_stride_two(backends, index) ==
    [backend |-> backends[(index % Len(backends)) + 1], rr |-> index + 2]

select_round_robin(backends, index) ==
    [backend |-> backends[(index % Len(backends)) + 1], rr |-> index + 1]

\* i32 and u32 at the width of the model
I32Min == -(2 ^ (IntBits - 1))
I32Max == 2 ^ (IntBits - 1) - 1
U32Max == 2 ^ IntBits - 1

\* `x as i32` for a u32 x
as_i32(x) == IF x > I32Max THEN x - 2 ^ IntBits ELSE x

\* the i32 that a wrapping operation leaves for the exact result x
wrap_i32(x) == ((x - I32Min) % (2 ^ IntBits)) + I32Min

Overflows(x) == x < I32Min \/ x > I32Max

Abs(a) == IF a < 0 THEN -a ELSE a

\* `a % b` of i32: the sign of the dividend (b # 0)
rem_i32(a, b) == IF a < 0 THEN -(Abs(a) % Abs(b)) ELSE a % Abs(b)

\* fn gcd, lines 183-190, on the values a build without overflow checks
\* computes (abs() of the least i32 is that i32 again)
RECURSIVE gcd(_, _)
gcd(a, b) == IF b = 0 THEN wrap_i32(Abs(a)) ELSE gcd(b, rem_i32(a, b))

\* fn gcd panics: the remainder of the least i32 by -1 overflows in every
\* build, abs() of the least i32 in a build with overflow checks
RECURSIVE gcd_panics(_, _)
gcd_panics(a, b) ==
    IF b = 0 THEN overflow_checks /\ a = I32Min
    ELSE (a = I32Min /\ b = -1) \/ gcd_panics(b, rem_i32(a, b))

RECURSIVE FoldGcd(_, _, _)
FoldGcd(ws, i, acc) ==
    IF i > Len(ws) THEN acc ELSE FoldGcd(ws, i + 1, gcd(acc, ws[i]))

\* `weights.iter().fold(0, |acc, &w| gcd(acc, w))` panics
RECURSIVE FoldGcdPanics(_, _, _)
FoldGcdPanics(ws, i, acc) ==
    IF i > Len(ws) THEN FALSE
    ELSE gcd_panics(acc, ws[i]) \/ FoldGcdPanics(ws, i + 1, gcd(acc, ws[i]))

RECURSIVE MaxOf(_, _, _)
MaxOf(ws, i, acc) ==
    IF i > Len(ws) THEN acc
    ELSE MaxOf(ws, i + 1, IF ws[i] > acc THEN ws[i] ELSE acc)

\* the loop of select_weighted_round_robin; indices are 0-based as in the
\* code; `current_weight -= gcd` panics on overflow in a build with overflow
\* checks and wraps in one without
RECURSIVE WrrLoop(_, _, _, _, _)
WrrLoop(ws, g, mx, ci, cw) ==
    LET ni == (ci + 1) % Len(ws)
        d  == wrap_i32(cw - g)
        nw == IF ni = 0 THEN (IF d <= 0 THEN mx ELSE d) ELSE cw
    IN  IF ni = 0 /\ Overflows(cw - g) /\ overflow_checks
        THEN [current_index |-> ni, current_weight |-> cw, panic |-> TRUE]
        ELSE IF ws[ni + 1] >= nw
        THEN [current_index |-> ni, current_weight |-> nw, panic |-> FALSE]
        ELSE WrrLoop(ws, g, mx, ni, nw)

\* select_weighted_round_robin after the early return, lines 150-168, over
\* the weights cast to i32 and their maximum: the index chosen, the state
\* left, and whether the call panicked
wrr_select(ws, mx, st) ==
    IF FoldGcdPanics(ws, 1, 0)
    THEN [index |-> 0, ws |-> st, panic |-> TRUE]
    ELSE LET ns == WrrLoop(ws, FoldGcd(ws, 1, 0), mx,
                           st.current_index, st.current_weight)
         IN  [index |-> ns.current_index,
              ws |-> [current_index |-> ns.current_index,
                      current_weight |-> ns.current_weight],
              panic |-> ns.panic]

\* select_weighted_round_robin over a list of backends given by their u32
\* weights
select_weighted_at(weights, st) ==
    IF Len(weights) = 1
    THEN [index |-> 0, ws |-> st, panic |-> FALSE]
    ELSE LET ws == [i \in 1..Len(weights) |-> as_i32(weights[i])]
         IN  wrr_select(ws, MaxOf(ws, 2, ws[1]), st)

\* LoadBalancer::select_weighted_round_robin
select_weighted_round_robin_first_as_max(backends, st) ==
    IF Len(backends) = 1
    THEN [backend |-> backends[1], ws |-> st, panic |-> FALSE]
    ELSE LET ws == [i \in 1..Len(backends) |-> as_i32(weight[backends[i]])]
             r  == wrr_select(ws, ws[1], st)
         IN  [backend |-> backends[r.index + 1], ws |-> r.ws,
              panic |-> r.panic]

select_weighted_round_robin(backends, st) ==
    LET r == select_weighted_at([i \in 1..Len(backends) |->
                                    weight[backends[i]]], st)
    IN  [backend |-> backends[r.index + 1], ws |-> r.ws, panic |-> r.panic]

\* LoadBalancer::select_random: nanos is the time-derived number
select_random(backends, nanos) == backends[(nanos % Len(backends)) + 1]

\* the `match strategy` of select_backend over a non-empty backend list
select_by_strategy_least_is_first(strat, healthy_backends, nanos) ==
    CASE strat = "RoundRobin" ->
            LET s == select_round_robin(healthy_backends, round_robin_index)
            IN  [ok |-> TRUE, backend |-> s.backend, err |-> NoResult,
                 rr |-> s.rr, ws |-> weighted_state]
      [] strat = "WeightedRoundRobin" ->
            LET s == select_weighted_round_robin(healthy_backends, weighted_state)
            IN  [ok |-> TRUE, backend |-> s.backend, err |-> NoResult,
                 rr |-> round_robin_index, ws |-> s.ws]
      [] strat = "Random" ->
            [ok |-> TRUE, backend |-> select_random(healthy_backends, nanos),
             err |-> NoResult,
             rr |-> round_robin_index, ws |-> weighted_state]
      [] strat = "LeastConnections" ->
            [ok |-> TRUE, backend |-> healthy_backends[1], err |-> NoResult,
             rr |-> round_robin_index, ws |-> weighted_state]

select_by_strategy(strat, healthy_backends, nanos) ==
    CASE strat = "RoundRobin" ->
            LET s == select_round_robin(healthy_backends, round_robin_index)
            IN  [ok |-> TRUE, backend |-> s.backend, err |-> NoResult,
                 rr |-> s.rr, ws |-> weighted_state]
      [] strat = "WeightedRoundRobin" ->
            LET s == select_weighted_round_robin(healthy_backends, weighted_state)
            IN  [ok |-> TRUE, backend |-> s.backend, err |-> NoResult,
                 rr |-> round_robin_index, ws |-> s.ws]
      [] strat = "Random" ->
            [ok |-> TRUE, backend |-> select_random(healthy_backends, nanos),
             err |-> NoResult,
             rr |-> round_robin_index, ws |-> weighted_state]
      [] strat = "LeastConnections" ->
            \* "Fall back to round-robin for now"
            LET s == select_round_robin(healthy_backends, round_robin_index)
            IN  [ok |-> TRUE, backend |-> s.backend, err |-> NoResult,
                 rr |-> s.rr, ws |-> weighted_state]

\* LoadBalancer::select_backend.  Returns the outcome and the new values of
\* round_robin_index and weighted_state.
select_backend(name, nanos) ==
    IF name # "None"
    THEN [ok |-> registry_get(name) # "None",
          backend |-> registry_get(name),
          err |-> BackendNotFound(name),
          rr |-> round_robin_index, ws |-> weighted_state]
    ELSE LET healthy_backends == get_healthy_backends IN
         IF Len(healthy_backends) = 0
         THEN [ok |-> FALSE, backend |-> "None",
               err |-> NoHealthyBackends("all"),
               rr |-> round_robin_index, ws |-> weighted_state]
         ELSE select_by_strategy(strategy, healthy_backends, nanos)

\* LoadBalancer::set_strategy
SetStrategy(s) ==
    /\ strategy' = s
    /\ UNCHANGED <<round_robin_index, weighted_state, last_sel>>
    /\ UNCHANGED <<beVars, sideVars, epVars, sel_count, hcVars, queueVars>>

\* a direct call of LoadBalancer::select_backend
SelectBackendCall(name, nanos) ==
    /\ round_robin_index < MaxSelections
    /\ LET s == select_backend(name, nanos) IN
        /\ round_robin_index' = s.rr
        /\ weighted_state' = s.ws
        /\ last_sel' = [name |-> name, ok |-> s.ok,
                        backend |-> IF s.ok THEN s.backend ELSE "None",
                        err |-> IF s.ok THEN NoResult ELSE s.err]
    /\ UNCHANGED strategy
    /\ UNCHANGED <<beVars, sideVars, epVars, sel_count, hcVars, queueVars>>

\* ------------------------------------------------------ HealthCheckManager
\* a DashMap slot without an entry
NoEntry == [present |-> FALSE, healthy |-> TRUE, cf |-> 0, cs |-> 0]

\* HealthStatus::default()
HealthStatusDefault == [present |-> TRUE, healthy |-> TRUE, cf |-> 0, cs |-> 0]

\* HealthCheckManager::new
failure_threshold == 3
recovery_threshold == 2

\* entry(name).or_insert_with(HealthStatus::default)
or_insert_default(st) == IF st.present THEN st ELSE HealthStatusDefault

\* the update of one entry in the probe loop of HealthCheckManager::start
periodic_update_flips_early(st0, is_healthy) ==
    LET st == or_insert_default(st0) IN
    IF is_healthy
    THEN [present |-> TRUE, cf |-> 0, cs |-> st.cs + 1,
          healthy |-> IF ~st.healthy /\ st.cs + 1 >= recovery_threshold
                      THEN TRUE ELSE st.healthy]
    ELSE [present |-> TRUE, cs |-> 0, cf |-> st.cf + 1,
          healthy |-> IF st.healthy /\ st.cf + 1 >= failure_threshold - 1
                      THEN FALSE ELSE st.healthy]

periodic_update(st0, is_healthy) ==
    LET st == or_insert_default(st0) IN
    IF is_healthy
    THEN [present |-> TRUE, cf |-> 0, cs |-> st.cs + 1,
          healthy |-> IF ~st.healthy /\ st.cs + 1 >= recovery_threshold
                      THEN TRUE ELSE st.healthy]
    ELSE [present |-> TRUE, cs |-> 0, cf |-> st.cf + 1,
          healthy |-> IF st.healthy /\ st.cf + 1 >= failure_threshold
                      THEN FALSE ELSE st.healthy]

\* the update of one entry in HealthCheckManager::check_now
check_now_update_keeps_failures(st0, is_healthy) ==
    LET st == or_insert_default(st0) IN
    IF is_healthy
    THEN [present |-> TRUE, healthy |-> TRUE, cf |-> st.cf, cs |-> st.cs + 1]
    ELSE [present |-> TRUE, healthy |-> FALSE, cs |-> 0, cf |-> st.cf + 1]

check_now_update(st0, is_healthy) ==
    LET st == or_insert_default(st0) IN
    IF is_healthy
    THEN [present |-> TRUE, healthy |-> TRUE, cf |-> 0, cs |-> st.cs + 1]
    ELSE [present |-> TRUE, healthy |-> FALSE, cs |-> 0, cf |-> st.cf + 1]

\* HealthCheckManager::is_healthy
is_healthy(name) ==
    IF name \in BackendNames /\ health_status[name].present
    THEN health_status[name].healthy
    ELSE TRUE

\* HealthCheckManager::get_status: the entry of the manager's map, NoEntry
\* standing for None
get_status(name) ==
    IF name \in BackendNames THEN health_status[name] ELSE NoEntry

\* HealthCheckManager::get_unhealthy_backends
get_unhealthy_backends ==
    {b \in BackendNames : health_status[b].present /\ ~health_status[b].healthy}

\* backend.health_check().await answered `ok` for backend `name`, in the
\* probe task ("probe") or in check_now ("check_now")
HealthEvent(kind, name, ok) == [kind |-> kind, name |-> name, ok |-> ok]

NoHealthEvent == HealthEvent("none", "None", FALSE)

\* HealthCheckManager::start: the task captures self.health_status.clone()
HcStart ==
    /\ check_task = "None"
    /\ task_status' = health_status
    /\ check_task' = "Running"
    /\ probe_idx' = 1
    /\ UNCHANGED <<health_status, last_event>>
    /\ UNCHANGED <<beVars, sideVars, epVars, sel_count, lbVars, queueVars>>

\* one iteration of `for backend in registry.get_all()` in the probe task
HcProbe(ok) ==
    /\ check_task = "Running"
    /\ probe_idx <= Len(get_all)
    /\ LET name == get_all[probe_idx] IN
        /\ (IF ok THEN task_status[name].cs ELSE task_status[name].cf) < MaxCount
        /\ task_status' = [task_status EXCEPT ![name] = periodic_update(@, ok)]
        /\ last_event' = HealthEvent("probe", name, ok)
    /\ probe_idx' = probe_idx + 1
    /\ UNCHANGED <<health_status, check_task>>
    /\ UNCHANGED <<beVars, sideVars, epVars, sel_count, lbVars, queueVars>>

\* tokio::time::sleep(interval) at the end of a probe cycle
HcSleep ==
    /\ check_task = "Running"
    /\ probe_idx = Len(get_all) + 1
    /\ probe_idx' = 1
    /\ UNCHANGED <<health_status, task_status, check_task, last_event>>
    /\ UNCHANGED <<beVars, sideVars, epVars, sel_count, lbVars, queueVars>>

\* HealthCheckManager::check_now(name), the probe answering `ok`
CheckNow(name, ok) ==
    /\ registry_get(name) # "None"
    /\ (IF ok THEN health_status[name].cs ELSE health_status[name].cf) < MaxCount
    /\ health_status' = [health_status EXCEPT ![name] = check_now_update(@, ok)]
    /\ last_event' = HealthEvent("check_now", name, ok)
    /\ UNCHANGED <<task_status, check_task, probe_idx>>
    /\ UNCHANGED <<beVars, sideVars, epVars, sel_count, lbVars, queueVars>>

\* --------------------------------------------------------- BackendEndpoint
Endpoints == 1..NumEndpoints

\* BackendEndpoint::new(url); last_check is a timestamp nothing reads
BackendEndpointNew == [healthy |-> TRUE, consecutive_failures |-> 0]

\* BackendEndpoint::mark_healthy
mark_healthy(ep) == [healthy |-> TRUE, consecutive_failures |-> 0]

\* BackendEndpoint::mark_unhealthy
mark_unhealthy_at_two(ep) ==
    LET n == ep.consecutive_failures + 1 IN
    [healthy |-> IF n >= 2 THEN FALSE ELSE ep.healthy,
     consecutive_failures |-> n]

mark_unhealthy(ep) ==
    LET n == ep.consecutive_failures + 1 IN
    [healthy |-> IF n >= 3 THEN FALSE ELSE ep.healthy,
     consecutive_failures |-> n]

\* what has been recorded on an endpoint: failures since its last success,
\* successes since its last failure, and what recorded the latest result
NoHistory == [fails |-> 0, succs |-> 0, by |-> "none"]

Record(h, ok, by) ==
    IF ok THEN [fails |-> 0, succs |-> h.succs + 1, by |-> by]
          ELSE [fails |-> h.fails + 1, succs |-> 0, by |-> by]

\* HttpBackend::mark_endpoint_healthy / mark_endpoint_unhealthy, under the
\* write lock of self.endpoints
mark_endpoint_healthy(e) ==
    endpoints' = [endpoints EXCEPT ![e] = mark_healthy(@)]

mark_endpoint_unhealthy(e) ==
    endpoints' = [endpoints EXCEPT ![e] = mark_unhealthy(@)]

\* a result `ok` of endpoint e is recorded by `by`
EndpointResult(e, ok, by) ==
    /\ (IF ok THEN ep_hist[e].succs
              ELSE endpoints[e].consecutive_failures) < MaxCount
    /\ IF ok THEN mark_endpoint_healthy(e) ELSE mark_endpoint_unhealthy(e)
    /\ ep_hist' = [ep_hist EXCEPT ![e] = Record(@, ok, by)]

\* HttpBackend::health_check: the probe of endpoint e answered `ok`
EndpointProbe(e, ok) ==
    /\ EndpointResult(e, ok, "probe")
    /\ UNCHANGED <<beVars, sideVars, lbVars, sel_count, hcVars, queueVars>>

\* HttpBackend::generate: the request sent to endpoint e came back; the
\* endpoint was healthy when get_next_endpoint chose it, and may have been
\* marked by other tasks while the request was in flight
EndpointResponse(e, ok) ==
    /\ EndpointResult(e, ok, "response")
    /\ UNCHANGED <<beVars, sideVars, lbVars, sel_count, hcVars, queueVars>>

\* ------------------------------------------------------------------ Router
\* model names a caller may pass: none, one that contains the name of a
\* backend, one that matches no backend and none of the patterns
ModelArgs == {"None", "A", "B", "other"}

\* default_backend values: none, a registered name, an unregistered one
DefaultArgs == {"None", "A", "B", "ghost"}

RouterConfigs == [default_backend : DefaultArgs, fallback_enabled : BOOLEAN]

\* RouterConfig::default()
RouterConfigDefault == [default_backend |-> "None", fallback_enabled |-> TRUE]

\* the outcome of a routing rule; `rule` names the rule that produced it
Routed(rule, backend) ==
    [ok |-> TRUE, backend |-> backend, err |-> NoResult, rule |-> rule]

RouteErr(rule, err) ==
    [ok |-> FALSE, backend |-> "None", err |-> err, rule |-> rule]

\* route_by_model, lines 134-153: model_lower.contains(backend_name) or
\* backend_name.contains(model_lower), on the names above; the "stable",
\* "sd", "dall" patterns occur in none of them
ModelMatches(model, b) == model = b

\* Router::get_healthy_backend
get_healthy_backend_any_state(rule, name) ==
    IF registry_get(name) = "None"
    THEN RouteErr(rule, BackendNotFound(name))
    ELSE Routed(rule, name)

get_healthy_backend(rule, name) ==
    IF registry_get(name) = "None"
    THEN RouteErr(rule, BackendNotFound(name))
    ELSE IF ~enabled[name]
    THEN RouteErr(rule, BackendNotFound("disabled"))
    ELSE IF ~is_healthy(name)
    THEN RouteErr(rule, NoHealthyBackends(name))
    ELSE Routed(rule, name)

\* the registered backends that pass a filter, in get_all order
FirstOf(ok(_)) ==
    LET s == SelectSeq(get_all, ok) IN IF s = <<>> THEN "None" ELSE s[1]

\* Router::route_by_model: Some(backend) or None
route_by_model(model) ==
    FirstOf(LAMBDA b : enabled[b] /\ is_healthy(b) /\ ModelMatches(model, b))

\* Router::get_any_healthy_backend
get_any_healthy_backend ==
    LET b == FirstOf(LAMBDA x : enabled[x] /\ is_healthy(x)) IN
    IF b # "None" THEN Routed("fallback", b)
    ELSE RouteErr("fallback", NoHealthyBackends("all"))

\* Router::route
route_default_first(cfg, name, model) ==
    IF name # "None" THEN get_healthy_backend("explicit", name)
    ELSE IF cfg.default_backend # "None"
            /\ get_healthy_backend("default", cfg.default_backend).ok
    THEN get_healthy_backend("default", cfg.default_backend)
    ELSE IF model # "None" /\ route_by_model(model) # "None"
    THEN Routed("model", route_by_model(model))
    ELSE IF cfg.fallback_enabled THEN get_any_healthy_backend
    ELSE RouteErr("none", NoHealthyBackends("No available backends"))

route(cfg, name, model) ==
    IF name # "None" THEN get_healthy_backend("explicit", name)
    ELSE IF model # "None" /\ route_by_model(model) # "None"
    THEN Routed("model", route_by_model(model))
    ELSE IF cfg.default_backend # "None"
            /\ get_healthy_backend("default", cfg.default_backend).ok
    THEN get_healthy_backend("default", cfg.default_backend)
    ELSE IF cfg.fallback_enabled THEN get_any_healthy_backend
    ELSE RouteErr("none", NoHealthyBackends("No available backends"))

\* no route call made yet; `seq` alternates with every call
NoRoute == [seq |-> 0, name |-> "None", model |-> "None",
            out |-> RouteErr("none", NoResult)]

\* a call of Router::route
RouteCall(name, model) ==
    /\ router' = [router EXCEPT
                    !.last = [seq |-> 1 - router.last.seq, name |-> name,
                              model |-> model,
                              out |-> route(router.config, name, model)]]
    /\ UNCHANGED <<beVars, batchVars, lockVars, httpVars, genVars, restVars,
                   epVars, lbVars, sel_count, hcVars, queueVars>>

\* ------------------------------------------------------------ RequestQueue
\* a oneshot channel: the value sent (NoResult if none), whether the
\* receiver still exists, and the number of sends attempted on it
NewOneshot == [value |-> NoResult, rx_alive |-> TRUE, sends |-> 0]

\* oneshot::Sender::send: stores the value unless the receiver is gone
OneshotSend(ch, v) ==
    [value |-> IF ch.rx_alive THEN v ELSE ch.value,
     rx_alive |-> ch.rx_alive,
     sends |-> ch.sends + 1]

\* variant: the outcome of send is unwrapped, a failed send panics the worker
AfterSendUnwrap(send_ok) == IF send_ok THEN "exit" ELSE "panicked"

\* `let _ = queued.response_tx.send(..)`: the outcome of send is ignored
AfterSend(send_ok) == "exit"

\* the receiver is dropped (submit returns or its future is dropped)
OneshotDropRx(ch) == [ch EXCEPT !.rx_alive = FALSE]

\* variant: the cap is tested with > instead of >=
IsQueueFullOffByOne(pending) == pending > config.max_queue_size

\* submit: `pending >= self.config.max_queue_size`
IsQueueFull(pending) == pending >= config.max_queue_size

\* mpsc::channel(config.max_queue_size): capacity of the request channel
ChannelCapacity == config.max_queue_size

\* Semaphore::new(config.max_concurrent)
SemaphoreInit == config.max_concurrent

\* variant: acquire completes without waiting for a permit
CanAcquireAlways(p) == TRUE

\* sem.acquire() completes only when a permit is available
CanAcquire(p) == p > 0

\* variant: the permit is forgotten instead of released
DropPermitForget(p) == p

\* drop of `_permit` when the worker returns
DropPermit(p) == p + 1

\* variant: the wait in submit uses a longer duration than configured
SubmitTimeoutLonger == config.timeout_ms + 1

\* Duration::from_millis(self.config.timeout_ms) in submit
SubmitTimeout == config.timeout_ms

\* Duration::from_millis(timeout_ms) in process_requests
WorkerTimeout == config.timeout_ms

\* variant: the timer fires at once
TimerFiredAtOnce(e, duration) == TRUE

\* tokio::time::timeout: the timer has fired
TimerFired(e, duration) == e >= duration

\* fetch_sub(1) on the three ways out of the wait in submit
FetchSubOnResult(p) == p - 1
FetchSubOnTimeout(p) == p - 1

\* variant: recv takes the newest item of the channel
ChannelNextNewest(ch) == ch[Len(ch)]

\* mpsc::Receiver::recv: the next item of the channel
ChannelNext(ch) == Head(ch)
ChannelRest(ch) == Tail(ch)

\* the response a backend call of request r on backend b can produce
GenerateOk(r) == Err("Ok", "response", r)
GenerateErr(r) == Err("BackendError", "backend failed", r)
WorkerTimedOut(r) == Err("Timeout", "Request to backend timed out", r)

\* submit, lines 85-88: load pending_count and test it against the cap.
\* Calls are numbered in the order in which they start.
SubmitCheck(c, name) ==
    /\ pc[c] = "idle"
    /\ \A d \in Callers : d < c => pc[d] # "idle"
    /\ IF IsQueueFull(pending_count)
       THEN /\ pc' = [pc EXCEPT ![c] = "returned"]
            /\ result' = [result EXCEPT ![c] = QueueFull]
            /\ UNCHANGED backend_name
       ELSE /\ pc' = [pc EXCEPT ![c] = "checked"]
            /\ backend_name' = [backend_name EXCEPT ![c] = name]
            /\ UNCHANGED result
    /\ UNCHANGED <<config, pending_count, elapsed>>
    /\ UNCHANGED <<chanVars, workerVars>>
    /\ UNCHANGED <<beVars, sideVars, epVars, sel_count, lbVars, hcVars>>

\* submit, lines 91-100: create the oneshot channel, fetch_add(1)
SubmitIncrement(c) ==
    /\ pc[c] = "checked"
    /\ pending_count' = pending_count + 1
    /\ response_ch' = [response_ch EXCEPT ![c] = NewOneshot]
    /\ pc' = [pc EXCEPT ![c] = "sending"]
    /\ UNCHANGED <<config, backend_name, result, elapsed>>
    /\ UNCHANGED <<request_ch, enq_log, deq_log, workerVars>>
    /\ UNCHANGED <<beVars, sideVars, epVars, sel_count, lbVars, hcVars>>

\* submit, lines 103-112: request_tx.send completes, the timeout is armed
SubmitSend(c) ==
    /\ pc[c] = "sending"
    /\ Len(request_ch) < ChannelCapacity
    /\ request_ch' = Append(request_ch, c)
    /\ enq_log' = Append(enq_log, c)
    /\ elapsed' = [elapsed EXCEPT ![c] = 0]
    /\ pc' = [pc EXCEPT ![c] = "waiting"]
    /\ UNCHANGED <<config, pending_count, backend_name, result>>
    /\ UNCHANGED <<response_ch, deq_log, workerVars>>
    /\ UNCHANGED <<beVars, sideVars, epVars, sel_count, lbVars, hcVars>>

\* submit, lines 113-116: Ok(Ok(result)); the inner future is polled first
SubmitReceive(c) ==
    /\ pc[c] = "waiting"
    /\ response_ch[c].value # NoResult
    /\ pending_count' = FetchSubOnResult(pending_count)
    /\ result' = [result EXCEPT ![c] = response_ch[c].value]
    /\ response_ch' = [response_ch EXCEPT ![c] = OneshotDropRx(@)]
    /\ pc' = [pc EXCEPT ![c] = "returned"]
    /\ elapsed' = [elapsed EXCEPT ![c] = 0]
    /\ UNCHANGED <<config, backend_name>>
    /\ UNCHANGED <<request_ch, enq_log, deq_log, workerVars>>
    /\ UNCHANGED <<beVars, sideVars, epVars, sel_count, lbVars, hcVars>>

\* submit, lines 121-124: Err(_), the timer fired with no value present
SubmitTimeoutFires(c) ==
    /\ pc[c] = "waiting"
    /\ response_ch[c].value = NoResult
    /\ TimerFired(elapsed[c], SubmitTimeout)
    /\ pending_count' = FetchSubOnTimeout(pending_count)
    /\ result' = [result EXCEPT ![c] = SubmitTimedOut]
    /\ response_ch' = [response_ch EXCEPT ![c] = OneshotDropRx(@)]
    /\ pc' = [pc EXCEPT ![c] = "returned"]
    /\ elapsed' = [elapsed EXCEPT ![c] = 0]
    /\ UNCHANGED <<config, backend_name>>
    /\ UNCHANGED <<request_ch, enq_log, deq_log, workerVars>>
    /\ UNCHANGED <<beVars, sideVars, epVars, sel_count, lbVars, hcVars>>

\* the caller drops the future of submit at one of its suspension points
\* (the blocked send, or the wait for the response): nothing after the
\* suspension point runs, the locals of the future are dropped
SubmitDropped(c) ==
    /\ \/ pc[c] = "sending" /\ Len(request_ch) >= ChannelCapacity
       \/ pc[c] = "waiting"
    /\ response_ch' = [response_ch EXCEPT ![c] = OneshotDropRx(@)]
    /\ pc' = [pc EXCEPT ![c] = "dropped"]
    /\ elapsed' = [elapsed EXCEPT ![c] = 0]
    /\ UNCHANGED <<config, pending_count, backend_name, result>>
    /\ UNCHANGED <<request_ch, enq_log, deq_log, workerVars>>
    /\ UNCHANGED <<beVars, sideVars, epVars, sel_count, lbVars, hcVars>>

\* process_requests, lines 135-140: recv one request and spawn its worker
Dispatch ==
    /\ request_ch # <<>>
    /\ LET r == ChannelNext(request_ch) IN
        /\ wpc' = [wpc EXCEPT ![r] = "acquire"]
        /\ deq_log' = Append(deq_log, r)
    /\ request_ch' = ChannelRest(request_ch)
    /\ UNCHANGED <<permits, wbackend, welapsed>>
    /\ UNCHANGED <<callerVars, response_ch, enq_log>>
    /\ UNCHANGED <<beVars, sideVars, epVars, sel_count, lbVars, hcVars>>

\* worker, lines 142-167: sem.acquire() returns a permit, then a backend is
\* selected; on error the error is sent and the worker returns, otherwise
\* backend.generate starts under the timeout
WorkerStart(r, nanos) ==
    /\ wpc[r] = "acquire"
    /\ CanAcquire(permits)
    /\ LET s == select_backend(backend_name[r], nanos) IN
        /\ round_robin_index' = s.rr
        /\ weighted_state' = s.ws
        /\ IF s.ok
           THEN /\ wbackend' = [wbackend EXCEPT ![r] = s.backend]
                /\ wpc' = [wpc EXCEPT ![r] = "generate"]
                /\ permits' = permits - 1
                /\ UNCHANGED response_ch
           ELSE /\ response_ch' = [response_ch EXCEPT ![r] =
                                     OneshotSend(@, [s.err EXCEPT !.req = r])]
                /\ permits' = DropPermit(permits - 1)
                /\ wpc' = [wpc EXCEPT ![r] = AfterSend(response_ch[r].rx_alive)]
                /\ UNCHANGED wbackend
    /\ UNCHANGED welapsed
    /\ UNCHANGED <<strategy, last_sel>>
    /\ UNCHANGED <<callerVars, request_ch, enq_log, deq_log>>
    /\ UNCHANGED <<beVars, sideVars, epVars, sel_count, hcVars>>

\* worker, lines 167-180: backend.generate answers; send it, drop the permit
WorkerGenerateDone(r, ok) ==
    /\ wpc[r] = "generate"
    /\ LET response == IF ok THEN GenerateOk(r) ELSE GenerateErr(r) IN
        response_ch' = [response_ch EXCEPT ![r] = OneshotSend(@, response)]
    /\ permits' = DropPermit(permits)
    /\ wpc' = [wpc EXCEPT ![r] = AfterSend(response_ch[r].rx_alive)]
    /\ wbackend' = [wbackend EXCEPT ![r] = "None"]
    /\ welapsed' = [welapsed EXCEPT ![r] = 0]
    /\ UNCHANGED <<callerVars, request_ch, enq_log, deq_log>>
    /\ UNCHANGED <<beVars, sideVars, epVars, sel_count, lbVars, hcVars>>

\* worker, lines 167-180: the timeout around backend.generate fires
WorkerGenerateTimeout(r) ==
    /\ wpc[r] = "generate"
    /\ TimerFired(welapsed[r], WorkerTimeout)
    /\ response_ch' = [response_ch EXCEPT ![r] =
                         OneshotSend(@, WorkerTimedOut(r))]
    /\ permits' = DropPermit(permits)
    /\ wpc' = [wpc EXCEPT ![r] = AfterSend(response_ch[r].rx_alive)]
    /\ wbackend' = [wbackend EXCEPT ![r] = "None"]
    /\ welapsed' = [welapsed EXCEPT ![r] = 0]
    /\ UNCHANGED <<callerVars, request_ch, enq_log, deq_log>>
    /\ UNCHANGED <<beVars, sideVars, epVars, sel_count, lbVars, hcVars>>

\* armed timers: submit calls waiting for their response, workers inside
\* backend.generate
ArmedCallers == {c \in Callers : pc[c] = "waiting"}
ArmedWorkers == {r \in Callers : wpc[r] = "generate"}

\* the clock advances by one unit; a timer that has fired is served first
Tick ==
    /\ ArmedCallers \cup ArmedWorkers # {}
    /\ \A c \in ArmedCallers : ~TimerFired(elapsed[c], SubmitTimeout)
    /\ \A r \in ArmedWorkers : ~TimerFired(welapsed[r], WorkerTimeout)
    /\ elapsed' = [c \in Callers |->
                     IF c \in ArmedCallers THEN elapsed[c] + 1 ELSE elapsed[c]]
    /\ welapsed' = [r \in Callers |->
                     IF r \in ArmedWorkers THEN welapsed[r] + 1 ELSE welapsed[r]]
    /\ UNCHANGED <<config, pending_count, pc, backend_name, result>>
    /\ UNCHANGED <<chanVars, permits, wpc, wbackend>>
    /\ UNCHANGED <<beVars, sideVars, epVars, sel_count, lbVars, hcVars>>

\* ----------------------------------------------------------------- Batcher
BatchRequests == 1..NumBatchRequests
Processors == 1..NumProcessors

\* BatchConfig
BatchConfigs == [max_batch_size : {MaxBatchSize}, max_wait_ms : {MaxWaitMs},
                 enabled : BOOLEAN]
BatchConfigDefault ==
    [max_batch_size |-> MaxBatchSize, max_wait_ms |-> MaxWaitMs,
     enabled |-> TRUE]

\* the oneshot pair made by add_request: where the sender is ("none" before
\* the call, "held" in a BatchedRequest, "dropped", "sent"), the value the
\* receiver finds, and the number of sends made on it
NoResponse == [tx |-> "none", value |-> NoResult, sends |-> 0]

\* a process_batch call: its position, the drained requests it has not yet
\* served (the head is the one being served), and the clock units since it
\* began to await generate
IdleProcessor == [pc |-> "idle", batched |-> <<>>, elapsed |-> 0]

NoShouldProcess == [seq |-> 0, result |-> FALSE]

\* Instant::elapsed() compared with a duration: the clock stops counting once
\* the duration is reached
Advance(e, cap) == IF e < cap THEN e + 1 ELSE e

\* variant: the request is queued whatever the configuration says
add_request_ignores_enabled(b, r) ==
    [b EXCEPT !.pending_requests = Append(@, r)]

\* add_request: `if !self.config.enabled { return rx; }`, else push
add_request(b, r) ==
    IF ~b.config.enabled THEN b
    ELSE [b EXCEPT !.pending_requests = Append(@, r)]

\* should_process
should_process(b) ==
    IF Len(b.pending_requests) = 0 THEN FALSE
    ELSE IF Len(b.pending_requests) >= b.config.max_batch_size THEN TRUE
    ELSE IF b.last_batch_time >= b.config.max_wait_ms THEN TRUE
    ELSE FALSE

\* pending_count
batcher_pending_count(b) == Len(b.pending_requests)

\* variant: the batch is copied and the list is left as it was
drain_all_keeps(pending) == [batch |-> pending, rest |-> pending]

\* `pending.drain(..).collect()`: the whole list moves into the batch
drain_all(pending) == [batch |-> pending, rest |-> <<>>]

\* a call of Batcher::add_request for the next request
AddRequest(r) ==
    /\ r = bobs.added + 1
    /\ batcher' = add_request(batcher, r)
    /\ bobs' = [bobs EXCEPT
                  !.added = r,
                  !.resp[r].tx = IF r \in {batcher'.pending_requests[i] :
                                       i \in 1..Len(batcher'.pending_requests)}
                                 THEN "held" ELSE "dropped"]
    /\ UNCHANGED <<bproc, router, lockVars, httpVars, genVars,
                   restVars>>
    /\ UNCHANGED <<beVars, epVars, lbVars, sel_count, hcVars, queueVars>>

\* a call of Batcher::should_process
ShouldProcess ==
    /\ bobs' = [bobs EXCEPT
                  !.should = [seq |-> 1 - bobs.should.seq,
                              result |-> should_process(batcher)]]
    /\ UNCHANGED <<batcher, bproc, router, lockVars, httpVars, genVars,
                   restVars>>
    /\ UNCHANGED <<beVars, epVars, lbVars, sel_count, hcVars, queueVars>>

\* process_batch up to drop(pending): returns on an empty list, else drains
ProcessDrain(p) ==
    /\ bproc[p].pc = "idle"
    /\ LET d == drain_all(batcher.pending_requests)
       IN  IF Len(batcher.pending_requests) = 0
           THEN /\ bobs' = [bobs EXCEPT !.returned_empty = TRUE]
                /\ UNCHANGED <<batcher, bproc>>
           ELSE /\ batcher' = [batcher EXCEPT !.pending_requests = d.rest]
                /\ bproc' = [bproc EXCEPT ![p] = [pc |-> "stamp",
                                                  batched |-> d.batch,
                                                  elapsed |-> 0]]
                /\ UNCHANGED bobs
    /\ UNCHANGED <<router, lockVars, httpVars, genVars,
                   restVars>>
    /\ UNCHANGED <<beVars, epVars, lbVars, sel_count, hcVars, queueVars>>

\* `*self.last_batch_time.lock().await = Instant::now()`
ProcessStamp(p) ==
    /\ bproc[p].pc = "stamp"
    /\ batcher' = [batcher EXCEPT !.last_batch_time = 0]
    /\ bproc' = [bproc EXCEPT ![p].pc = "generate"]
    /\ UNCHANGED <<bobs, router, lockVars, httpVars, genVars,
                   restVars>>
    /\ UNCHANGED <<beVars, epVars, lbVars, sel_count, hcVars, queueVars>>

\* `backend.generate(batched.request)` is called for the head of the batch
ProcessGenerate(p) ==
    /\ bproc[p].pc = "generate"
    /\ LET r == Head(bproc[p].batched)
       IN  bobs' = [bobs EXCEPT !.calls[r] = Advance(@, NumProcessors + 1)]
    /\ bproc' = [bproc EXCEPT ![p].pc = "await", ![p].elapsed = 0]
    /\ UNCHANGED <<batcher, router, lockVars, httpVars, genVars,
                   restVars>>
    /\ UNCHANGED <<beVars, epVars, lbVars, sel_count, hcVars, queueVars>>

\* generate answers; `let _ = batched.response_tx.send(result)`; the loop
\* goes on with the next request, or process_batch returns Ok(())
ProcessSend(p, ok) ==
    /\ bproc[p].pc = "await"
    /\ LET r == Head(bproc[p].batched)
           rest == Tail(bproc[p].batched)
           v == IF ok THEN GenerateOk(r) ELSE GenerateErr(r)
       IN  /\ bobs' = [bobs EXCEPT
                         !.resp[r] = [tx |-> "sent",
                                      value |-> IF @.sends = 0 THEN v
                                                ELSE @.value,
                                      sends |-> Advance(@.sends,
                                                        NumProcessors + 1)],
                         !.since_completion =
                             IF rest = <<>> THEN 0 ELSE @]
           /\ bproc' = [bproc EXCEPT ![p] =
                          IF rest = <<>> THEN IdleProcessor
                          ELSE [pc |-> "generate", batched |-> rest,
                                elapsed |-> 0]]
    /\ UNCHANGED <<batcher, router, lockVars, httpVars, genVars,
                   restVars>>
    /\ UNCHANGED <<beVars, epVars, lbVars, sel_count, hcVars, queueVars>>

\* the clock advances by one unit; nothing in process_batch is armed with a
\* timer, so an awaited generate call just grows older
BatcherTick ==
    /\ batcher' = [batcher EXCEPT
                     !.last_batch_time = Advance(@, batcher.config.max_wait_ms)]
    /\ bobs' = [bobs EXCEPT
                  !.since_completion = Advance(@, batcher.config.max_wait_ms)]
    /\ bproc' = [p \in Processors |->
                   IF bproc[p].pc = "await"
                   THEN [bproc[p] EXCEPT !.elapsed =
                                            Advance(@, WorkerTimeout + 1)]
                   ELSE bproc[p]]
    /\ <<batcher', bobs', bproc'>> # <<batcher, bobs, bproc>>
    /\ UNCHANGED <<router, lockVars, httpVars, genVars,
                   restVars>>
    /\ UNCHANGED <<beVars, epVars, lbVars, sel_count, hcVars, queueVars>>

\* ---------------------------------------------------------- lock discipline
\* The async functions that take a lock or await the network, as the
\* sequence of their lock operations, suspension points and branches.
Lock(l, mode) == [op |-> "lock", lock |-> l, mode |-> mode]
Unlock(l) == [op |-> "unlock", lock |-> l]
Await(on) == [op |-> "await", on |-> on]
Goto(to) == [op |-> "goto", to |-> to]
Return == [op |-> "return"]

\* awaits that go to the network: generate, a probe request, a channel dial
NetworkAwaits == {"generate", "probe", "dial"}

\* Batcher::add_request
add_request_ops == <<
    Goto({2, 3}),                           \* 64 `if !self.config.enabled`
    Return,                                 \* 67
    Lock("pending_requests", "write"),      \* 75
    Return >>                               \* 78

\* Batcher::should_process
should_process_ops == <<
    Lock("pending_requests", "write"),      \* 83
    Lock("last_batch_time", "write"),       \* 84
    Return >>                               \* 87, 92, 97, 100

\* variant: the pending list stays locked until process_batch returns
process_batch_ops_drop_late == <<
    Lock("pending_requests", "write"),
    Goto({3, 4}),
    Return,
    Goto({5}),
    Lock("last_batch_time", "write"),
    Unlock("last_batch_time"),
    Await("generate"),
    Goto({7, 9}),
    Return >>

\* Batcher::process_batch
process_batch_ops == <<
    Lock("pending_requests", "write"),      \* 105
    Goto({3, 4}),                           \* 107 `if pending.is_empty()`
    Return,                                 \* 108
    Unlock("pending_requests"),             \* 111-112 drain, drop(pending)
    Lock("last_batch_time", "write"),       \* 115
    Unlock("last_batch_time"),              \* 115, end of the statement
    Await("generate"),                      \* 124
    Goto({7, 9}),                           \* 125 send, 123 next request
    Return >>                               \* 129

\* the task spawned by HealthCheckManager::start
probe_loop_ops == <<
    Await("probe"),                         \* 69
    Lock("health_status_entry", "write"),   \* 71-73
    Unlock("health_status_entry"),          \* 106, end of the loop body
    Goto({1, 5}),                           \* 67 next backend
    Await("sleep"),                         \* 108
    Goto({1}) >>                            \* 65 loop

\* HealthCheckManager::check_now
check_now_ops == <<
    Goto({2, 3}),                           \* 158 `registry.get(name)?`
    Return,
    Await("probe"),                         \* 159
    Lock("health_status_entry", "write"),   \* 161-163
    Return >>                               \* 176

\* HttpBackend::generate with get_next_endpoint and mark_endpoint_*
http_generate_ops == <<
    Lock("endpoints", "read"),              \* 104
    Goto({3, 4}),                           \* 110
    Return,                                 \* 111, 155
    Lock("current_endpoint_index", "write"), \* 114
    Unlock("current_endpoint_index"),       \* 117
    Unlock("endpoints"),                    \* 117
    Await("generate"),                      \* 188, 192
    Goto({7, 9}),                           \* 182 next url pattern
    Lock("endpoints", "write"),             \* 121, 130
    Return >>                               \* 126, 135

\* HttpBackend::health_check
http_health_check_ops == <<
    Lock("endpoints", "read"),              \* 251
    Unlock("endpoints"),                    \* 251, end of the statement
    Goto({4, 8}),                           \* 254
    Await("probe"),                         \* 257
    Lock("endpoints", "write"),             \* 259, 268, 277
    Unlock("endpoints"),
    Goto({4, 8}),                           \* 254 next endpoint
    Return >>                               \* 288

\* GrpcBackend::generate with get_next_healthy_index, get_channel and
\* mark_endpoint_healthy
grpc_generate_ops == <<
    Lock("endpoints", "read"),              \* 91
    Goto({3, 4}),                           \* 99
    Return,                                 \* 100, 150
    Lock("current_endpoint_index", "write"), \* 103
    Unlock("current_endpoint_index"),       \* 106
    Unlock("endpoints"),                    \* 106
    Lock("channels", "read"),               \* 53
    Unlock("channels"),                     \* 55, 57
    Goto({10, 17}),                         \* 54 a cached channel, or none
    Lock("endpoints", "read"),              \* 61
    Unlock("endpoints"),                    \* 66
    Await("dial"),                          \* 73-75
    Goto({14, 15}),                         \* 76 `?`
    Return,                                 \* 76, 152
    Lock("channels", "write"),              \* 80
    Unlock("channels"),                     \* 84
    Lock("endpoints", "write"),             \* 125, 186
    Return >>                               \* 130, 189

\* LoadBalancer::select_backend under the weighted strategy
select_backend_ops == <<
    Goto({2, 3}),                           \* 75, 85
    Return,                                 \* 76, 86
    Lock("strategy", "read"),               \* 90
    Unlock("strategy"),                     \* 90, end of the statement
    Lock("weighted_state", "write"),        \* 150
    Return >>                               \* 169

Programs ==
    [add_request |-> add_request_ops,
     should_process |-> should_process_ops,
     process_batch |-> process_batch_ops,
     probe_loop |-> probe_loop_ops,
     check_now |-> check_now_ops,
     http_generate |-> http_generate_ops,
     http_health_check |-> http_health_check_ops,
     grpc_generate |-> grpc_generate_ops,
     select_backend |-> select_backend_ops]

ProgramNames == DOMAIN Programs
LockTasks == 1..NumLockTasks

\* a task at the start of its function, holding nothing
NewTask(prog) == [prog |-> prog, pc |-> 1, held |-> {}]

\* the operation the task is at
OpOf(t) == Programs[lock_task[t].prog][lock_task[t].pc]

\* the lock can be taken: nobody else writes it, and nobody else reads it
\* if it is taken for writing
CanLock(t, l, mode) ==
    \A u \in LockTasks \ {t} :
        \A h \in lock_task[u].held :
            h.lock = l => (mode = "read" /\ h.mode = "read")

\* one step of a task: it takes or releases a lock, is resumed after an
\* await, branches, or returns (which drops every guard it still holds) and
\* is called again
TaskStep(t) ==
    /\ LET o == OpOf(t)
           me == lock_task[t]
       IN  \/ /\ o.op = "lock"
              /\ CanLock(t, o.lock, o.mode)
              /\ lock_task' = [lock_task EXCEPT ![t] =
                    [me EXCEPT !.pc = @ + 1,
                               !.held = @ \cup {[lock |-> o.lock,
                                                 mode |-> o.mode]}]]
           \/ /\ o.op = "unlock"
              /\ lock_task' = [lock_task EXCEPT ![t] =
                    [me EXCEPT !.pc = @ + 1,
                               !.held = {h \in @ : h.lock # o.lock}]]
           \/ /\ o.op = "await"
              /\ lock_task' = [lock_task EXCEPT ![t].pc = @ + 1]
           \/ /\ o.op = "goto"
              /\ \E to \in o.to : lock_task' = [lock_task EXCEPT ![t].pc = to]
           \/ /\ o.op = "return"
              /\ lock_task' = [lock_task EXCEPT ![t] = NewTask(me.prog)]
    /\ UNCHANGED <<router, batchVars, httpVars, genVars, restVars>>
    /\ UNCHANGED <<beVars, epVars, lbVars, sel_count, hcVars, queueVars>>

\* -------------------------------------------------------------- HttpBackend
\* the endpoint cursor of HttpBackend (GrpcBackend::get_next_healthy_index
\* is the same code over the indices of the healthy endpoints)
Selectors == 1..NumSelectors

\* variant: every endpoint counts, healthy or not
HealthyEndpoints_all(eps) == [i \in 1..NumEndpoints |-> i]

\* the healthy endpoints, in the order of self.endpoints
HealthyEndpoints(eps) ==
    SelectSeq([i \in 1..NumEndpoints |-> i], LAMBDA e : eps[e].healthy)

HealthySet(eps) == {e \in Endpoints : eps[e].healthy}

\* variant: the cursor is read without being advanced
advance_cursor_keeps(index, m) == index % m

\* `*index = (*index + 1) % healthy_endpoints.len()`
advance_cursor(index, m) == (index + 1) % m

\* get_next_endpoint, under the read lock of endpoints and the write lock of
\* current_endpoint_index: None without a healthy endpoint, else the new
\* cursor and the healthy endpoint at it (the list is indexed from 0)
get_next_endpoint(eps, index) ==
    LET healthy_endpoints == HealthyEndpoints(eps) IN
    IF Len(healthy_endpoints) = 0
    THEN [some |-> FALSE, index |-> index, endpoint |-> 0]
    ELSE LET i == advance_cursor(index, Len(healthy_endpoints)) IN
         [some |-> TRUE, index |-> i, endpoint |-> healthy_endpoints[i + 1]]

NoObservation == [by |-> 0, index |-> 0, healthy |-> {}]

\* HttpBackend::new, and what the callers have seen of it: the latest
\* cursor value observed and by whom, the endpoints chosen since the healthy
\* set last differed, the backend of the request being served, and the
\* connect errors of generate calls on A since its last other outcome
HttpBackendNew ==
    [current_endpoint_index |-> 0,
     observed |-> NoObservation,
     picks |-> [e \in Endpoints |-> 0],
     serving |-> "None",
     connect_errors |-> 0]

\* the tally of chosen endpoints after one more choice; it starts again
\* when the healthy set is not the one of the previous selection
Tally(h, eps, e) ==
    IF h.observed.by # 0 /\ h.observed.healthy = HealthySet(eps)
    THEN [h.picks EXCEPT ![e] = @ + 1]
    ELSE [x \in Endpoints |-> IF x = e THEN 1 ELSE 0]

\* the backend after a call of get_next_endpoint by selector c
AfterSelection(h, eps, c) ==
    LET n == get_next_endpoint(eps, h.current_endpoint_index) IN
    IF ~n.some THEN h
    ELSE [h EXCEPT
            !.current_endpoint_index = n.index,
            !.observed = [by |-> c, index |-> n.index,
                          healthy |-> HealthySet(eps)],
            !.picks = Tally(h, eps, n.endpoint)]

\* a call of get_next_endpoint by selector c
GetNextEndpoint(c) ==
    /\ SumOver(http.picks, Endpoints) < MaxPicks
    /\ http' = AfterSelection(http, endpoints, c)
    /\ UNCHANGED <<router, batchVars, lockVars, genVars, restVars>>
    /\ UNCHANGED <<beVars, epVars, lbVars, sel_count, hcVars, queueVars>>

\* a queue worker takes the next request, submitted without a backend name,
\* and selects its backend (process_requests, `select_backend(...)`)
TrafficSelect(nanos) ==
    /\ http.serving = "None"
    /\ round_robin_index < MaxTally
    /\ LET s == select_backend("None", nanos) IN
        /\ round_robin_index' = s.rr
        /\ weighted_state' = s.ws
        /\ last_sel' = [name |-> "None", ok |-> s.ok,
                        backend |-> IF s.ok THEN s.backend ELSE "None",
                        err |-> IF s.ok THEN NoResult ELSE s.err]
        /\ http' = [http EXCEPT !.serving = IF s.ok THEN s.backend ELSE "None"]
    /\ UNCHANGED strategy
    /\ UNCHANGED <<router, batchVars, lockVars, genVars, restVars>>
    /\ UNCHANGED <<beVars, epVars, sel_count, hcVars, queueVars>>

\* HttpBackend::generate of backend A: NoHealthyBackends without a healthy
\* endpoint; else the request goes to the chosen endpoint, a parsed 2xx
\* answer marks it healthy and a connect error marks it unhealthy
GenerateOnA(ok) ==
    /\ http.serving = "A"
    /\ LET n == get_next_endpoint(endpoints, http.current_endpoint_index)
       IN  IF ~n.some
           THEN /\ http' = [http EXCEPT !.serving = "None"]
                /\ UNCHANGED epVars
           ELSE /\ http' = [http EXCEPT
                              !.current_endpoint_index = n.index,
                              !.serving = "None",
                              !.connect_errors =
                                  IF ok THEN 0 ELSE Advance(@, 3)]
                /\ EndpointResult(n.endpoint, ok, "response")
    /\ UNCHANGED <<router, batchVars, lockVars, genVars, restVars>>
    /\ UNCHANGED <<beVars, lbVars, sel_count, hcVars, queueVars>>

\* generate of backend B answers
GenerateOnB ==
    /\ http.serving = "B"
    /\ http' = [http EXCEPT !.serving = "None"]
    /\ UNCHANGED <<router, batchVars, lockVars, genVars, restVars>>
    /\ UNCHANGED <<beVars, epVars, lbVars, sel_count, hcVars, queueVars>>

\* ---------------------------------------------------- HttpBackend::generate
\* the path suffixes of urls_to_try, in the order they are tried
UrlsToTry ==
    <<"/v1/images/generations", "/generate", "/api/generate",
      "/sdapi/v1/txt2img">>

\* what one `client.post(url).send().await` attempt can come to: a parsed
\* 2xx answer, a 2xx answer that does not parse, a non-2xx status, a
\* transport error that is_connect() or is_timeout(), another transport
\* error
AttemptOutcomes == {"parsed", "unparseable", "status", "connect", "timeout",
                    "other"}

\* variant: a connect or timeout error goes on to the next path
after_attempt_retries_dead(outcome) ==
    CASE outcome = "parsed" -> "return_ok"
      [] OTHER -> "continue"

\* the arms of the match in the url loop
after_attempt(outcome) ==
    CASE outcome = "parsed" -> "return_ok"
      [] outcome \in {"connect", "timeout"} -> "abort"
      [] OTHER -> "continue"

\* self.name of the backend, and AppError::HttpClient
HttpBackendName == "A"
HttpClientError == Err("HttpClient", "", 0)

\* no generate call is running
NoCall == [pc |-> "idle", some |-> FALSE, endpoint |-> 0, tried |-> <<>>,
           marks |-> <<>>, result |-> NoResult,
           before |-> [healthy |-> TRUE, consecutive_failures |-> 0],
           cursor |-> 0]

\* generate, lines 153-155: the endpoint is chosen, or the call fails with
\* NoHealthyBackends(self.name)
GenerateBegin ==
    /\ gen.pc \in {"idle", "done"}
    /\ LET n == get_next_endpoint(endpoints, http.current_endpoint_index) IN
       /\ http' = [http EXCEPT !.current_endpoint_index = n.index]
       /\ gen' = IF n.some
                 THEN [NoCall EXCEPT !.pc = "trying", !.some = TRUE,
                                     !.endpoint = n.endpoint,
                                     !.before = endpoints[n.endpoint],
                                     !.cursor = http.current_endpoint_index]
                 ELSE [NoCall EXCEPT !.pc = "done",
                                     !.result = NoHealthyBackends(HttpBackendName),
                                     !.cursor = http.current_endpoint_index]
    /\ UNCHANGED <<epVars, restVars>>
    /\ UNCHANGED <<coreVars>>

\* generate marks its endpoint, lines 194, 233 and 246 (the failure counter
\* is kept within MaxCount)
GenerateMark(e, ok) ==
    /\ IF ok THEN mark_endpoint_healthy(e)
             ELSE /\ endpoints[e].consecutive_failures < MaxCount
                  /\ mark_endpoint_unhealthy(e)
    /\ UNCHANGED ep_hist

\* one pass of the url loop: the next path is posted to the chosen endpoint
\* and the answer is handled; after the last path the endpoint is marked
\* unhealthy (line 246)
GenerateAttempt(outcome) ==
    /\ gen.pc = "trying"
    /\ LET e == gen.endpoint
           tried == Append(gen.tried,
                           [path |-> UrlsToTry[Len(gen.tried) + 1],
                            outcome |-> outcome])
           next == after_attempt(outcome)
           last == Len(tried) = Len(UrlsToTry)
       IN  CASE next = "return_ok" ->
                  /\ GenerateMark(e, TRUE)
                  /\ gen' = [gen EXCEPT !.pc = "done", !.tried = tried,
                                        !.marks = Append(@, "healthy"),
                                        !.result = GenerateOk(0)]
             [] next = "abort" ->
                  /\ GenerateMark(e, FALSE)
                  /\ gen' = [gen EXCEPT !.pc = "done", !.tried = tried,
                                        !.marks = Append(@, "unhealthy"),
                                        !.result = GenerateErr(0)]
             [] next = "continue" /\ last ->
                  /\ GenerateMark(e, FALSE)
                  /\ gen' = [gen EXCEPT !.pc = "done", !.tried = tried,
                                        !.marks = Append(@, "unhealthy"),
                                        !.result = IF outcome = "other"
                                                   THEN HttpClientError
                                                   ELSE GenerateErr(0)]
             [] OTHER ->
                  /\ gen' = [gen EXCEPT !.tried = tried]
                  /\ UNCHANGED epVars
    /\ UNCHANGED <<http, restVars>>
    /\ UNCHANGED <<coreVars>>

\* ------------------------------------------- HealthCheckManager start / stop
\* the tasks that start can spawn in one run
ProbeTasks == 1..MaxStarts

\* HealthCheckManager::new: check_task is None and no task was spawned;
\* stopped tells that stop has returned since the latest start, late_update
\* that a periodic update was made while stopped
MonitorNew ==
    [check_task |-> 0,
     tasks |-> [t \in ProbeTasks |-> "unborn"],
     stopped |-> FALSE,
     late_update |-> FALSE]

\* the tasks that are alive: between probes, or awaiting a probe's answer
LiveTasks(m) == {t \in ProbeTasks : m.tasks[t] \in {"running", "probing"}}

\* variant: start aborts the task whose handle it replaces
replace_handle_aborting(m, t) ==
    [m EXCEPT !.check_task = t,
              !.tasks = [u \in ProbeTasks |->
                            IF u = t THEN "running"
                            ELSE IF u = m.check_task THEN "aborted"
                            ELSE m.tasks[u]]]

\* start, lines 62 and 112: tokio::spawn, then
\* `*self.check_task.write().await = Some(handle)`; the handle that was
\* there is dropped, which detaches its task
replace_handle(m, t) ==
    [m EXCEPT !.check_task = t, !.tasks[t] = "running"]

\* a call of HealthCheckManager::start
MonitorStart ==
    /\ \E t \in ProbeTasks :
          /\ monitor.tasks[t] = "unborn"
          /\ \A u \in ProbeTasks : u < t => monitor.tasks[u] # "unborn"
          /\ monitor' = [replace_handle(monitor, t) EXCEPT !.stopped = FALSE]
    /\ UNCHANGED <<epVars, httpVars, genVars, grpcVars, driverVars,
                   pureVars>>
    /\ UNCHANGED <<coreVars>>

\* a call of HealthCheckManager::stop: take() the handle and abort its task;
\* abort() does not wait for the task
MonitorStop ==
    /\ monitor' = [monitor EXCEPT
                     !.check_task = 0,
                     !.tasks = [u \in ProbeTasks |->
                                   IF u = monitor.check_task THEN "aborted"
                                   ELSE monitor.tasks[u]],
                     !.stopped = TRUE]
    /\ UNCHANGED <<epVars, httpVars, genVars, grpcVars, driverVars,
                   pureVars>>
    /\ UNCHANGED <<coreVars>>

\* a probe task calls backend.health_check() and awaits the answer
MonitorProbe(t) ==
    /\ monitor.tasks[t] = "running"
    /\ monitor' = [monitor EXCEPT !.tasks[t] = "probing"]
    /\ UNCHANGED <<epVars, httpVars, genVars, grpcVars, driverVars,
                   pureVars>>
    /\ UNCHANGED <<coreVars>>

\* the answer arrives and the task updates health_status (lines 71-97)
MonitorUpdate(t) ==
    /\ monitor.tasks[t] = "probing"
    /\ monitor' = [monitor EXCEPT !.tasks[t] = "running",
                                  !.late_update = @ \/ monitor.stopped]
    /\ UNCHANGED <<epVars, httpVars, genVars, grpcVars, driverVars,
                   pureVars>>
    /\ UNCHANGED <<coreVars>>

\* -------------------------------------------------------------- GrpcBackend
GrpcEndpoints == 1..NumGrpcEndpoints
GrpcCallers == 1..NumGrpcCallers
ChannelIds == 1..MaxDials

\* a caller that is not inside get_channel
NoGrpcCall ==
    [pc |-> "idle", kind |-> "get", index |-> 0, cached |-> 0, channel |-> 0,
     dialed |-> FALSE, ok |-> FALSE, could |-> FALSE]

\* GrpcBackend::new: every endpoint healthy, every cache slot None; with it
\* the servers (all reachable), the channels dialed so far, the endpoint
\* each was dialed to and the ones whose connection still stands
GrpcBackendNew ==
    [endpoints |-> [i \in GrpcEndpoints |-> BackendEndpointNew],
     channels |-> [i \in GrpcEndpoints |-> 0],
     up |-> [i \in GrpcEndpoints |-> TRUE],
     dials |-> 0,
     chan_of |-> [ch \in ChannelIds |-> 0],
     live |-> {},
     calls |-> [c \in GrpcCallers |-> NoGrpcCall]]

\* variant: the dialed channel is returned but not cached
store_channel_skips(channels, index, channel) == channels

\* get_channel, lines 78-84: `*slot = Some(channel.clone())`
store_channel(channels, index, channel) ==
    [channels EXCEPT ![index] = channel]

\* GrpcBackend::mark_endpoint_healthy
grpc_mark_healthy(g, index) ==
    [g EXCEPT !.endpoints[index] = mark_healthy(@)]

\* GrpcBackend::mark_endpoint_unhealthy: the failure is counted and the
\* cache slot is cleared
grpc_mark_unhealthy(g, index) ==
    [g EXCEPT !.endpoints[index] = mark_unhealthy(@),
              !.channels[index] = 0]

\* what a probe that ends now ought to answer: a channel can be
\* established, or the cached one is live
ProbeCould(g, index) ==
    g.up[index] \/ (g.channels[index] # 0 /\ g.channels[index] \in g.live)

\* what the caller of get_channel does with its answer: generate and the
\* connection test of health_check mark the endpoint healthy on Ok;
\* health_check marks it unhealthy on Err, generate returns the error
AfterGetChannel(g, kind, index, ok) ==
    IF kind = "get" THEN g
    ELSE IF ok THEN grpc_mark_healthy(g, index)
    ELSE grpc_mark_unhealthy(g, index)

\* get_channel(index), lines 51-57: a cached channel is returned as it is;
\* without one the caller goes on to dial
GetChannelRead(c, index, kind) ==
    /\ grpc.calls[c].pc \in {"idle", "done"}
    /\ LET slot == grpc.channels[index]
           call == [NoGrpcCall EXCEPT !.kind = kind, !.index = index,
                                      !.cached = slot]
       IN IF slot # 0
          THEN grpc' = [AfterGetChannel(grpc, kind, index, TRUE) EXCEPT
                          !.calls[c] = [call EXCEPT
                                          !.pc = "done", !.channel = slot,
                                          !.ok = TRUE,
                                          !.could = ProbeCould(grpc, index)]]
          ELSE grpc' = [grpc EXCEPT !.calls[c] = [call EXCEPT
                                                   !.pc = "connecting"]]
    /\ UNCHANGED <<epVars, httpVars, genVars, monitorVars, driverVars,
                   pureVars>>
    /\ UNCHANGED <<coreVars>>

\* lines 73-86: connect().await answers; on Ok the channel is stored in the
\* slot, whatever the slot holds by now, and returned; on Err the error is
\* returned
GetChannelConnect(c) ==
    /\ grpc.calls[c].pc = "connecting"
    /\ LET call == grpc.calls[c]
           index == call.index
           ch == grpc.dials + 1
       IN IF grpc.up[index]
          THEN /\ grpc.dials < MaxDials
               /\ LET stored == [grpc EXCEPT
                                   !.dials = ch,
                                   !.chan_of[ch] = index,
                                   !.live = @ \cup {ch},
                                   !.channels =
                                       store_channel(@, index, ch)]
                  IN grpc' = [AfterGetChannel(stored, call.kind, index, TRUE)
                                EXCEPT !.calls[c] =
                                   [call EXCEPT !.pc = "done",
                                                !.channel = ch,
                                                !.dialed = TRUE,
                                                !.ok = TRUE,
                                                !.could = TRUE]]
          ELSE /\ call.kind = "probe" =>
                    grpc.endpoints[index].consecutive_failures < MaxCount
               /\ grpc' = [AfterGetChannel(grpc, call.kind, index, FALSE)
                          EXCEPT !.calls[c] =
                             [call EXCEPT !.pc = "done",
                                          !.ok = FALSE,
                                          !.could = ProbeCould(grpc, index)]]
    /\ UNCHANGED <<epVars, httpVars, genVars, monitorVars, driverVars,
                   pureVars>>
    /\ UNCHANGED <<coreVars>>

\* the server of an endpoint goes away: its connections fail
ServerDown(index) ==
    /\ grpc.up[index]
    /\ grpc' = [grpc EXCEPT
                  !.up[index] = FALSE,
                  !.live = {ch \in @ : grpc.chan_of[ch] # index}]
    /\ UNCHANGED <<epVars, httpVars, genVars, monitorVars, driverVars,
                   pureVars>>
    /\ UNCHANGED <<coreVars>>

\* the server of an endpoint is back
ServerUp(index) ==
    /\ ~grpc.up[index]
    /\ grpc' = [grpc EXCEPT !.up[index] = TRUE]
    /\ UNCHANGED <<epVars, httpVars, genVars, monitorVars, driverVars,
                   pureVars>>
    /\ UNCHANGED <<coreVars>>

\* ------------------------------------------------------ BatchProcessor::run
\* BatchProcessor::new, before run: the loop is about to call should_process;
\* with it the batch being served, the number of batches dispatched, the
\* size of the largest, the requests added while a batch was being served
\* and the batch each request was served in
DriverNew ==
    [pc |-> "check", batch |-> <<>>, batches |-> 0, largest |-> 0,
     during |-> {}, served_in |-> [r \in BatchRequests |-> 0]]

\* variant: the loop comes back without time having passed
sleep_interval_stalls(t, cap) == t

\* `tokio::time::sleep(interval).await`: one more unit on every clock
sleep_interval(t, cap) == Advance(t, cap)

\* Batcher::add_request called while the loop runs
RunAddRequest(r) ==
    /\ r = bobs.added + 1
    /\ batcher' = add_request(batcher, r)
    /\ bobs' = [bobs EXCEPT
                  !.added = r,
                  !.resp[r].tx = IF r \in {batcher'.pending_requests[i] :
                                       i \in 1..Len(batcher'.pending_requests)}
                                 THEN "held" ELSE "dropped"]
    /\ driver' = [driver EXCEPT
                    !.during = IF driver.pc = "generate" THEN @ \cup {r}
                               ELSE @]
    /\ UNCHANGED <<bproc, router, lockVars, httpVars, genVars, monitorVars,
                   grpcVars, pureVars>>
    /\ UNCHANGED <<beVars, epVars, lbVars, sel_count, hcVars, queueVars>>

\* run, line 203: `if self.batcher.should_process().await`
RunShouldProcess ==
    /\ driver.pc = "check"
    /\ driver' = [driver EXCEPT !.pc = IF should_process(batcher)
                                       THEN "process" ELSE "sleep"]
    /\ UNCHANGED <<batchVars, router, lockVars, httpVars, genVars,
                   monitorVars, grpcVars, pureVars>>
    /\ UNCHANGED <<beVars, epVars, lbVars, sel_count, hcVars, queueVars>>

\* run, line 204: process_batch up to the loop over the batch (103-115):
\* Ok(()) on an empty list; else the list is drained, last_batch_time set
RunProcessBatch ==
    /\ driver.pc = "process"
    /\ LET d == drain_all(batcher.pending_requests)
           n == Len(d.batch)
       IN  IF n = 0
           THEN /\ driver' = [driver EXCEPT !.pc = "sleep"]
                /\ UNCHANGED batcher
           ELSE /\ batcher' = [batcher EXCEPT !.pending_requests = d.rest,
                                              !.last_batch_time = 0]
                /\ driver' = [driver EXCEPT
                                !.pc = "generate",
                                !.batch = d.batch,
                                !.batches = @ + 1,
                                !.largest = IF n > @ THEN n ELSE @]
    /\ UNCHANGED <<bproc, bobs, router, lockVars, httpVars, genVars,
                   monitorVars, grpcVars, pureVars>>
    /\ UNCHANGED <<beVars, epVars, lbVars, sel_count, hcVars, queueVars>>

\* process_batch, lines 123-126: generate answers for the head of the
\* batch and the result is sent on its channel; after the last one
\* process_batch returns and run goes to sleep
RunGenerateReturns(ok) ==
    /\ driver.pc = "generate"
    /\ LET r == Head(driver.batch)
           rest == Tail(driver.batch)
           v == IF ok THEN GenerateOk(r) ELSE GenerateErr(r)
       IN  /\ bobs' = [bobs EXCEPT
                         !.calls[r] = Advance(@, NumProcessors + 1),
                         !.resp[r] = [tx |-> "sent",
                                      value |-> IF @.sends = 0 THEN v
                                                ELSE @.value,
                                      sends |-> Advance(@.sends,
                                                        NumProcessors + 1)]]
           /\ driver' = [driver EXCEPT
                           !.batch = rest,
                           !.served_in[r] = driver.batches,
                           !.pc = IF rest = <<>> THEN "sleep"
                                  ELSE "generate"]
    /\ UNCHANGED <<batcher, bproc, router, lockVars, httpVars, genVars,
                   monitorVars, grpcVars, pureVars>>
    /\ UNCHANGED <<beVars, epVars, lbVars, sel_count, hcVars, queueVars>>

\* run, line 209: the loop sleeps for the interval and starts again
RunSleep ==
    /\ driver.pc = "sleep"
    /\ batcher' = [batcher EXCEPT
                     !.last_batch_time =
                         sleep_interval(@, batcher.config.max_wait_ms)]
    /\ driver' = [driver EXCEPT !.pc = "check"]
    /\ UNCHANGED <<bproc, bobs, router, lockVars, httpVars, genVars,
                   monitorVars, grpcVars, pureVars>>
    /\ UNCHANGED <<beVars, epVars, lbVars, sel_count, hcVars, queueVars>>

\* one step of BatchProcessor::run
RunStep ==
    \/ RunShouldProcess
    \/ RunProcessBatch
    \/ \E ok \in BOOLEAN : RunGenerateReturns(ok)
    \/ RunSleep

\* ------------------------------------------- calls on given argument lists
\* no call has been made
NoWrrCall == [made |-> FALSE, weights |-> <<>>, index |-> 0, panic |-> FALSE]

NoCoalesce ==
    [made |-> FALSE, requests |-> <<>>, combined |-> [id |-> 0, n |-> 0],
     images |-> <<>>, responses |-> <<>>, panic |-> FALSE]

\* u32 weights at and around the limits of i32 and u32
WeightValues == {1, 2, I32Max, I32Max + 1, U32Max}

WeightLists == UNION {[1..k -> WeightValues] : k \in 1..MaxListLen}

\* select_weighted_round_robin is called on a list of backends with these
\* weights, with the state the calls before it have left
WrrCall(weights) ==
    /\ LET r == select_weighted_at(weights, weighted_state)
       IN  /\ weighted_state' = r.ws
           /\ wrr_call' = [made |-> TRUE, weights |-> weights,
                           index |-> r.index, panic |-> r.panic]
    /\ UNCHANGED <<strategy, round_robin_index, last_sel, sel_count,
                   overflow_checks, coalesce>>
    /\ UNCHANGED <<beVars, epVars, hcVars, queueVars, router, batchVars,
                   lockVars, httpVars, genVars, monitorVars, grpcVars,
                   driverVars>>

\* the n of a request, at and around the limits of u32
NValues == {0, 1, 2, U32Max - 1, U32Max}

NLists == UNION {[1..k -> NValues] : k \in 1..MaxListLen}

\* the requests of a batch: request i asks for ns[i] images
RequestsOf(ns) == [i \in 1..Len(ns) |-> [id |-> i, n |-> ns[i]]]

\* `requests.iter().map(|r| r.n).sum()` in u32, as a build without
\* overflow checks computes it
RECURSIVE sum_u32(_, _, _)
sum_u32(requests, i, acc) ==
    IF i > Len(requests) THEN acc
    ELSE sum_u32(requests, i + 1, (acc + requests[i].n) % (U32Max + 1))

\* the sum overflows u32 at some element
RECURSIVE sum_overflows(_, _, _)
sum_overflows(requests, i, acc) ==
    IF i > Len(requests) THEN FALSE
    ELSE acc + requests[i].n > U32Max
         \/ sum_overflows(requests, i + 1, acc + requests[i].n)

\* variant: the combined request keeps the n of the first request
combine_requests_keeps_n(requests) == requests[1]

\* Batcher::combine_requests: the first request with n = total_n
combine_requests(requests) ==
    [requests[1] EXCEPT !.n = sum_u32(requests, 1, 0)]

\* `.iter().skip(image_index).take(n).cloned().collect()`
skip_take(images, image_index, n) ==
    SubSeq(images, image_index + 1,
           IF image_index + n < Len(images) THEN image_index + n
           ELSE Len(images))

\* the loop of split_response from request i on
RECURSIVE SplitLoop(_, _, _, _, _)
SplitLoop(response, original_requests, i, image_index, results) ==
    IF i > Len(original_requests) THEN results
    ELSE LET n == original_requests[i].n
         IN  SplitLoop(response, original_requests, i + 1, image_index + n,
                       Append(results,
                              [images |-> skip_take(response.images,
                                                    image_index, n),
                               model |-> response.model]))

\* Batcher::split_response
split_response(response, original_requests) ==
    SplitLoop(response, original_requests, 1, 0, <<>>)

\* combine_requests on the requests of a batch, a response that holds as
\* many images as the combined request asks for, and split_response on it
Coalesce(ns) ==
    /\ LET requests == RequestsOf(ns)
           combined == combine_requests(requests)
           response == [images |-> [j \in 1..combined.n |-> j],
                        model |-> "m"]
       IN  IF overflow_checks /\ sum_overflows(requests, 1, 0)
           THEN coalesce' = [NoCoalesce EXCEPT !.made = TRUE,
                                               !.requests = requests,
                                               !.panic = TRUE]
           ELSE coalesce' = [made |-> TRUE, requests |-> requests,
                             combined |-> combined,
                             images |-> response.images,
                             responses |-> split_response(response, requests),
                             panic |-> FALSE]
    /\ UNCHANGED <<overflow_checks, wrr_call>>
    /\ UNCHANGED <<beVars, epVars, lbVars, sel_count, hcVars, queueVars,
                   router, batchVars, lockVars, httpVars, genVars,
                   monitorVars, grpcVars, driverVars>>

\* ---------------------------------------------------------- specifications
\* HttpBackend::new / LoadBalancer::new / HealthCheckManager::new /
\* RequestQueue::with_config: the state after construction
InitLoadBalancer ==
    /\ strategy = "RoundRobin"
    /\ round_robin_index = 0
    /\ weighted_state = [current_index |-> 0, current_weight |-> 0]
    /\ last_sel = [name |-> "None", ok |-> FALSE, backend |-> "None",
                   err |-> NoResult]
    /\ sel_count = [b \in BackendNames |-> 0]

InitEndpoints ==
    /\ endpoints = [e \in Endpoints |-> BackendEndpointNew]
    /\ ep_hist = [e \in Endpoints |-> NoHistory]

\* Router::with_config
InitRouter(cfg) == router = [config |-> cfg, last |-> NoRoute]

\* HttpBackend::new
InitHttpBackend == http = HttpBackendNew

\* no generate call has been made
InitGenerate == gen = NoCall

\* HealthCheckManager::new
InitMonitor == monitor = MonitorNew

\* GrpcBackend::new
InitGrpc == grpc = GrpcBackendNew

\* BatchProcessor::new
InitDriver == driver = DriverNew

\* a build with overflow checks (no arithmetic of these runs overflows);
\* no call of the functions has been made
InitPure ==
    /\ overflow_checks = TRUE
    /\ wrr_call = NoWrrCall
    /\ coalesce = NoCoalesce

\* tasks that have not yet run
InitLockTasks(progs) == lock_task = [t \in LockTasks |-> NewTask(progs[t])]

\* Batcher::with_config: nothing pending, last_batch_time = Instant::now()
InitBatcher(cfg) ==
    /\ batcher = [config |-> cfg, pending_requests |-> <<>>,
                  last_batch_time |-> 0]
    /\ bproc = [p \in Processors |-> IdleProcessor]
    /\ bobs = [added |-> 0,
               resp |-> [r \in BatchRequests |-> NoResponse],
               calls |-> [r \in BatchRequests |-> 0],
               since_completion |-> 0,
               should |-> NoShouldProcess,
               returned_empty |-> FALSE]


InitHealth ==
    /\ health_status = [b \in BackendNames |-> NoEntry]
    /\ task_status = [b \in BackendNames |-> NoEntry]
    /\ check_task = "None"
    /\ probe_idx = 1
    /\ last_event = NoHealthEvent

\* QueueConfig::default(), scaled down
QueueConfigDefault == [max_queue_size |-> 1, max_concurrent |-> 1, timeout_ms |-> 1]

QueueConfigs ==
    [max_queue_size : {1, MaxQueueSize},
     max_concurrent : {MaxConcurrent},
     timeout_ms : {MaxTimeoutMs}]

InitRequestQueue(cfg) ==
    /\ config = cfg
    /\ pending_count = 0
    /\ pc = [c \in Callers |-> "idle"]
    /\ backend_name = [c \in Callers |-> "None"]
    /\ result = [c \in Callers |-> NoResult]
    /\ elapsed = [c \in Callers |-> 0]
    /\ request_ch = <<>>
    /\ response_ch = [c \in Callers |-> NewOneshot]
    /\ enq_log = <<>>
    /\ deq_log = <<>>
    /\ permits = SemaphoreInit
    /\ wpc = [c \in Callers |-> "none"]
    /\ wbackend = [c \in Callers |-> "None"]
    /\ welapsed = [c \in Callers |-> 0]

\* the request queue with its workers, over a fixed set of backends
InitQueue ==
    /\ enabled = [b \in BackendNames |-> TRUE]
    /\ weight = [b \in BackendNames |-> 1]
    /\ InitEndpoints
    /\ InitRouter(RouterConfigDefault)
    /\ InitBatcher(BatchConfigDefault)
    /\ InitLockTasks([t \in LockTasks |-> "process_batch"])
    /\ InitHttpBackend
    /\ InitGenerate
    /\ InitMonitor
    /\ InitGrpc
    /\ InitDriver
    /\ InitPure
    /\ InitLoadBalancer
    /\ InitHealth
    /\ \E cfg \in QueueConfigs :
          cfg.max_queue_size = MaxQueueSize /\ InitRequestQueue(cfg)

NextQueue ==
    \/ \E c \in Callers, name \in QueueNameArgs : SubmitCheck(c, name)
    \/ \E c \in Callers : SubmitIncrement(c)
    \/ \E c \in Callers : SubmitSend(c)
    \/ \E c \in Callers : SubmitReceive(c)
    \/ \E c \in Callers : SubmitTimeoutFires(c)
    \/ \E c \in Callers : SubmitDropped(c)
    \/ Dispatch
    \/ \E r \in Callers : WorkerStart(r, 0)
    \/ \E r \in Callers, ok \in BOOLEAN : WorkerGenerateDone(r, ok)
    \/ \E r \in Callers : WorkerGenerateTimeout(r)
    \/ Tick

SpecQueue == InitQueue /\ [][NextQueue]_vars

\* the same queue constructed with room for a single waiting request
InitQueueSmall ==
    /\ enabled = [b \in BackendNames |-> TRUE]
    /\ weight = [b \in BackendNames |-> 1]
    /\ InitEndpoints
    /\ InitRouter(RouterConfigDefault)
    /\ InitBatcher(BatchConfigDefault)
    /\ InitLockTasks([t \in LockTasks |-> "process_batch"])
    /\ InitHttpBackend
    /\ InitGenerate
    /\ InitMonitor
    /\ InitGrpc
    /\ InitDriver
    /\ InitPure
    /\ InitLoadBalancer
    /\ InitHealth
    /\ \E cfg \in QueueConfigs :
          cfg.max_queue_size = 1 /\ InitRequestQueue(cfg)

SpecQueueSmall == InitQueueSmall /\ [][NextQueue]_vars

\* the load balancer and the health checker, called directly
InitLB ==
    /\ enabled \in [BackendNames -> BOOLEAN]
    /\ weight \in [BackendNames -> 1..MaxWeight]
    /\ InitEndpoints
    /\ InitRouter(RouterConfigDefault)
    /\ InitBatcher(BatchConfigDefault)
    /\ InitLockTasks([t \in LockTasks |-> "process_batch"])
    /\ InitHttpBackend
    /\ InitGenerate
    /\ InitMonitor
    /\ InitGrpc
    /\ InitDriver
    /\ InitPure
    /\ InitLoadBalancer
    /\ InitHealth
    /\ InitRequestQueue(QueueConfigDefault)

NextLB ==
    \/ \E s \in Strategies : SetStrategy(s)
    \/ \E name \in NameArgs, nanos \in 0..1 : SelectBackendCall(name, nanos)
    \/ \E name \in NameArgs, ok \in BOOLEAN : CheckNow(name, ok)

SpecLB == InitLB /\ [][NextLB]_vars

\* the health checker with its background probe task
NextHealth ==
    \/ HcStart
    \/ \E ok \in BOOLEAN : HcProbe(ok)
    \/ HcSleep
    \/ \E name \in NameArgs, ok \in BOOLEAN : CheckNow(name, ok)

InitHealthManager ==
    /\ enabled = [b \in BackendNames |-> TRUE]
    /\ weight = [b \in BackendNames |-> 1]
    /\ InitEndpoints
    /\ InitRouter(RouterConfigDefault)
    /\ InitBatcher(BatchConfigDefault)
    /\ InitLockTasks([t \in LockTasks |-> "process_batch"])
    /\ InitHttpBackend
    /\ InitGenerate
    /\ InitMonitor
    /\ InitGrpc
    /\ InitDriver
    /\ InitPure
    /\ InitLoadBalancer
    /\ InitHealth
    /\ InitRequestQueue(QueueConfigDefault)

SpecHealth == InitHealthManager /\ [][NextHealth]_vars

\* ------------------------------------------------------------------ claims
\* workers inside backend.generate (they hold a permit)
InFlight == {r \in Callers : wpc[r] = "generate"}

\* submit calls that were admitted and have not ended
StillWaiting == {c \in Callers : pc[c] \in {"sending", "waiting"}}

\* the send of the worker of r found the receiver gone and was discarded
Discarded(r) == response_ch[r].sends = 1 /\ response_ch[r].value = NoResult

\* C1: the number of queue workers that are inside backend.generate at the
\* same time never exceeds max_concurrent.
C1_InFlightBounded == Cardinality(InFlight) <= config.max_concurrent

\* max_concurrent workers are in flight and a further worker waits for a permit
C1_Witness ==
    /\ Cardinality(InFlight) = config.max_concurrent
    /\ \E r \in Callers : wpc[r] = "acquire"

\* C2: a submit call made while pending_count >= max_queue_size returns the
\* queue-full error in that very step, enqueues nothing and leaves
\* pending_count unchanged.
C2_QueueFullRejects ==
    [][\A c \in Callers :
         (pc[c] = "idle" /\ pc'[c] # "idle"
            /\ pending_count >= config.max_queue_size)
         => /\ pc'[c] = "returned"
            /\ result'[c] = QueueFull
            /\ pending_count' = pending_count
            /\ request_ch' = request_ch
            /\ enq_log' = enq_log]_vars

\* a call was rejected while the admitted calls are still pending
C2_Witness ==
    \E c \in Callers :
        /\ pc[c] = "returned"
        /\ result[c] = QueueFull
        /\ pending_count = config.max_queue_size

\* C3: pending_count never exceeds max_queue_size.
C3_PendingWithinCap == pending_count <= config.max_queue_size

\* C4: pending_count equals the number of admitted submit calls that are
\* still waiting (and so is 0 once all of them have ended).
C4_PendingEqualsWaiting == pending_count = Cardinality(StillWaiting)

C7_PermitsConserved ==
    /\ permits + Cardinality(InFlight) = config.max_concurrent
    /\ (InFlight = {} => permits = config.max_concurrent)

\* one worker left on a selection error, another after a discarded send
C7_Witness ==
    \E r, q \in Callers :
        /\ wpc[r] = "exit" /\ response_ch[r].value.kind = "BackendNotFound"
        /\ wpc[q] = "exit" /\ Discarded(q)
        /\ permits = config.max_concurrent

\* C8: a worker whose send finds the caller already timed out completes
\* normally, its permit is released, the late result reaches no caller and
\* pending_count does not count the request.
C8_LateSendDiscarded ==
    /\ \A r \in Callers : wpc[r] # "panicked"
    /\ \A r \in Callers :
         (Discarded(r) /\ pc[r] = "returned") =>
            /\ wpc[r] = "exit"
            /\ result[r] = SubmitTimedOut
            /\ \A c \in Callers : result[c].req # r
            /\ permits + Cardinality(InFlight) = config.max_concurrent
            /\ pending_count =
                 Cardinality({c \in Callers \ {r} :
                                pc[c] \in {"sending", "waiting", "dropped"}})

\* the worker of a timed-out call has finished and its send was discarded
C8_Witness ==
    \E r \in Callers :
        /\ Discarded(r)
        /\ pc[r] = "returned"
        /\ result[r] = SubmitTimedOut

\* C9: the dispatcher dequeues the requests in the order in which submit
\* enqueued them, none skipped and none twice.
C9_FifoDispatch ==
    /\ Len(deq_log) + Len(request_ch) = Len(enq_log)
    /\ deq_log \o request_ch = enq_log
    /\ \A i, j \in 1..Len(deq_log) : i # j => deq_log[i] # deq_log[j]

\* the call that started second was enqueued and dequeued first
C9_Witness ==
    /\ Len(enq_log) = 2
    /\ enq_log[1] = 2
    /\ deq_log = enq_log

\* C10: without an explicit name select_backend returns a backend that is
\* enabled and reported healthy by the health checker, and NoHealthyBackends
\* when there is none.
C10_SelectsOnlyHealthy ==
    [][(last_sel' # last_sel /\ last_sel'.name = "None") =>
         IF \E b \in BackendNames : enabled[b] /\ is_healthy(b)
         THEN /\ last_sel'.ok
              /\ enabled[last_sel'.backend]
              /\ is_healthy(last_sel'.backend)
         ELSE /\ ~last_sel'.ok
              /\ last_sel'.err.kind = "NoHealthyBackends"]_vars

\* ---------------------------------------------------------------------
\* the request queue when callers name a backend, over backends of which
\* some are disabled
InitQueueNamed ==
    /\ enabled \in [BackendNames -> BOOLEAN]
    /\ weight = [b \in BackendNames |-> 1]
    /\ InitEndpoints
    /\ InitRouter(RouterConfigDefault)
    /\ InitBatcher(BatchConfigDefault)
    /\ InitLockTasks([t \in LockTasks |-> "process_batch"])
    /\ InitHttpBackend
    /\ InitGenerate
    /\ InitMonitor
    /\ InitGrpc
    /\ InitDriver
    /\ InitPure
    /\ InitLoadBalancer
    /\ InitHealth
    /\ \E cfg \in QueueConfigs : InitRequestQueue(cfg)

NextQueueNamed ==
    \/ \E c \in Callers, name \in NameArgs : SubmitCheck(c, name)
    \/ \E c \in Callers : SubmitIncrement(c)
    \/ \E c \in Callers : SubmitSend(c)
    \/ \E c \in Callers : SubmitReceive(c)
    \/ \E c \in Callers : SubmitTimeoutFires(c)
    \/ \E c \in Callers : SubmitDropped(c)
    \/ Dispatch
    \/ \E r \in Callers : WorkerStart(r, 0)
    \/ \E r \in Callers, ok \in BOOLEAN : WorkerGenerateDone(r, ok)
    \/ \E r \in Callers : WorkerGenerateTimeout(r)
    \/ Tick

SpecQueueNamed == InitQueueNamed /\ [][NextQueueNamed]_vars

\* C11: a request submitted with an explicit backend name is in a backend
\* call only on that backend and only if the backend is registered,
\* enabled and currently healthy.
C11_NamedDispatchOnlyIfUsable ==
    \A r \in Callers :
        (wpc[r] = "generate" /\ backend_name[r] # "None") =>
            /\ registry_get(backend_name[r]) # "None"
            /\ wbackend[r] = backend_name[r]
            /\ enabled[backend_name[r]]
            /\ is_healthy(backend_name[r])

\* ---------------------------------------------------------------------
\* health events, told apart by what a step changes: only check_now writes
\* the manager's map, only a probe advances the loop of the task
IsCheckNowStep == health_status' # health_status

IsProbeStep == probe_idx' = probe_idx + 1

\* C12: once the background task has seen failure_threshold consecutive
\* failed probes of a backend, and until it has seen recovery_threshold
\* consecutive successful ones (the task holds the backend unhealthy),
\* is_healthy, get_status and get_unhealthy_backends of the manager report
\* the backend unhealthy.
C12_ManagerReportsTaskVerdict ==
    \A b \in BackendNames :
        (check_task = "Running" /\ task_status[b].present
                                /\ ~task_status[b].healthy) =>
            /\ ~is_healthy(b)
            /\ get_status(b).present /\ ~get_status(b).healthy
            /\ b \in get_unhealthy_backends

\* the counter rules of one probe of the loop, from the entry before the
\* probe (a missing entry counting as the default one) to the entry after
ProbeRule(before, after, ok) ==
    LET st == or_insert_default(before) IN
    IF ok
    THEN /\ after.cf = 0
         /\ after.cs = st.cs + 1
         /\ after.healthy # st.healthy
                <=> (~st.healthy /\ after.cs >= recovery_threshold)
    ELSE /\ after.cs = 0
         /\ after.cf = st.cf + 1
         /\ after.healthy # st.healthy
                <=> (st.healthy /\ after.cf >= failure_threshold)

\* C13: in the probe loop a success zeroes consecutive_failures and adds 1
\* to consecutive_successes, a failure does the converse, so at most one
\* counter is non-zero; healthy flips to false exactly at a failure leaving
\* consecutive_failures >= failure_threshold, to true exactly at a success
\* leaving consecutive_successes >= recovery_threshold, and no other probe
\* changes it.
C13_ProbeLoopRules ==
    /\ [](\A b \in BackendNames : task_status[b].cf = 0 \/ task_status[b].cs = 0)
    /\ [][IsProbeStep =>
            LET name == last_event'.name IN
            /\ last_event'.kind = "probe"
            /\ ProbeRule(task_status[name], task_status'[name], last_event'.ok)
            /\ \A b \in BackendNames \ {name} : task_status'[b] = task_status[b]
         ]_vars

C13_Witness ==
    /\ last_event.kind = "probe"
    /\ \E b \in BackendNames :
        /\ last_event.name = b
        /\ ~task_status[b].healthy
        /\ task_status[b].cf = failure_threshold

\* a change of `healthy` between two values of one entry happens only with
\* the matching counter at its threshold
FlipsAtThreshold(before, after) ==
    LET st == or_insert_default(before) IN
    /\ (st.healthy /\ ~after.healthy) => after.cf >= failure_threshold
    /\ (~st.healthy /\ after.healthy) => after.cs >= recovery_threshold

\* C16: across periodic probes and check_now calls, HealthStatus.healthy
\* goes from true to false only at an event that leaves
\* consecutive_failures >= failure_threshold, and from false to true only
\* at one that leaves consecutive_successes >= recovery_threshold.
C16_FlipsOnlyAtThresholds ==
    [][/\ IsCheckNowStep =>
            \A b \in BackendNames :
                FlipsAtThreshold(health_status[b], health_status'[b])
       /\ IsProbeStep =>
            \A b \in BackendNames :
                FlipsAtThreshold(task_status[b], task_status'[b])
      ]_vars

\* the sum of the two counters of an entry
CounterSum(st) == st.cf + st.cs

\* C17 as stated: after every health event the sum consecutive_failures +
\* consecutive_successes of the backend is exactly 1 greater than before.
C17_SumGrowsByOne ==
    [][/\ IsCheckNowStep =>
            LET name == last_event'.name IN
            CounterSum(health_status'[name]) = CounterSum(health_status[name]) + 1
       /\ IsProbeStep =>
            LET name == last_event'.name IN
            CounterSum(task_status'[name]) = CounterSum(task_status[name]) + 1
      ]_vars

\* the counters after an event: the one matching the answer is 1 greater,
\* the other one is 0
CounterRule(before, after, ok) ==
    IF ok
    THEN after.cs = before.cs + 1 /\ after.cf = 0
    ELSE after.cf = before.cf + 1 /\ after.cs = 0

\* C17: after every health event (periodic probe or check_now) the counter
\* matching the answer is 1 greater than before and the other counter is
\* 0, so the sum is 1 greater than before exactly when the other counter
\* was 0 before the event.
C17_MatchingCounterGrowsByOne ==
    [][/\ IsCheckNowStep =>
            LET name == last_event'.name IN
            /\ last_event'.kind = "check_now"
            /\ CounterRule(health_status[name], health_status'[name],
                           last_event'.ok)
            /\ CounterSum(health_status'[name]) = CounterSum(health_status[name]) + 1
                <=> (IF last_event'.ok THEN health_status[name].cf
                                       ELSE health_status[name].cs) = 0
       /\ IsProbeStep =>
            LET name == last_event'.name IN
            /\ last_event'.kind = "probe"
            /\ CounterRule(task_status[name], task_status'[name],
                           last_event'.ok)
            /\ CounterSum(task_status'[name]) = CounterSum(task_status[name]) + 1
                <=> (IF last_event'.ok THEN task_status[name].cf
                                       ELSE task_status[name].cs) = 0
      ]_vars

C17_Witness ==
    /\ last_event = HealthEvent("check_now", "A", TRUE)
    /\ health_status["A"].cs = 1
    /\ \E b \in BackendNames : task_status[b].cf >= 2

\* C18: a check_now that follows a check_now of the same backend with the
\* same answer, no health event in between, leaves healthy and the two
\* counters of the backend as the first call left them.
C18_CheckNowIdempotent ==
    [][(/\ IsCheckNowStep
        /\ last_event.kind = "check_now"
        /\ last_event' = last_event) =>
            health_status'[last_event.name] = health_status[last_event.name]
      ]_vars

\* ---------------------------------------------------------------------
\* the endpoints of one HTTP backend, marked by health probes and by the
\* responses of requests, in any interleaving
NextEndpoint ==
    \/ \E e \in Endpoints, ok \in BOOLEAN : EndpointProbe(e, ok)
    \/ \E e \in Endpoints, ok \in BOOLEAN : EndpointResponse(e, ok)

SpecEndpoint == InitHealthManager /\ [][NextEndpoint]_vars

\* C14: an endpoint with healthy = false has consecutive_failures >=
\* failure_threshold, and consecutive_failures is the number of failures
\* recorded on the endpoint since its last success.
C14_UnhealthyOnlyAtThreshold ==
    \A e \in Endpoints :
        /\ ~endpoints[e].healthy =>
                endpoints[e].consecutive_failures >= failure_threshold
        /\ endpoints[e].consecutive_failures = ep_hist[e].fails

C14_Witness ==
    \E e, f \in Endpoints :
        /\ ~endpoints[e].healthy
        /\ endpoints[e].consecutive_failures = failure_threshold
        /\ endpoints[f].healthy
        /\ ep_hist[f].fails = failure_threshold - 1

\* C15: a probe turns an unhealthy endpoint healthy again only if it is at
\* least the recovery_threshold-th consecutive success recorded on the
\* endpoint; a single successful probe does not flip it back.
C15_RecoveryNeedsTwoProbes ==
    [][\A e \in Endpoints :
            (/\ ~endpoints[e].healthy
             /\ endpoints'[e].healthy
             /\ ep_hist'[e].by = "probe") =>
                ep_hist'[e].succs >= recovery_threshold
      ]_vars

\* ---------------------------------------------------------------------
\* the load balancer under one strategy, chosen before the first request,
\* over a fixed set of backends; every selection is counted
TotalSelections == SumOver(sel_count, BackendNames)

Selectable == {get_healthy_backends[i] : i \in 1..Len(get_healthy_backends)}

\* sum and gcd of the weights of the selectable backends
TotalWeight == SumOver(weight, Selectable)

WeightGcd ==
    FoldGcd([i \in 1..Len(get_healthy_backends) |->
                weight[get_healthy_backends[i]]], 1, 0)

InitBalance ==
    /\ enabled \in [BackendNames -> BOOLEAN]
    /\ weight \in [BackendNames -> 1..MaxWrrWeight]
    /\ InitEndpoints
    /\ InitRouter(RouterConfigDefault)
    /\ InitBatcher(BatchConfigDefault)
    /\ InitLockTasks([t \in LockTasks |-> "process_batch"])
    /\ InitHttpBackend
    /\ InitGenerate
    /\ InitMonitor
    /\ InitGrpc
    /\ InitDriver
    /\ InitPure
    /\ InitLoadBalancer
    /\ InitHealth
    /\ InitRequestQueue(QueueConfigDefault)

\* a call of select_backend(None) that returns a backend
SelectAndCount ==
    /\ TotalSelections < MaxTally
    /\ LET s == select_backend("None", 0) IN
        /\ s.ok
        /\ round_robin_index' = s.rr
        /\ weighted_state' = s.ws
        /\ sel_count' = [sel_count EXCEPT ![s.backend] = @ + 1]
        /\ last_sel' = [name |-> "None", ok |-> TRUE, backend |-> s.backend,
                        err |-> NoResult]
    /\ UNCHANGED strategy
    /\ UNCHANGED <<beVars, sideVars, epVars, hcVars, queueVars>>

\* set_strategy, called before the first request
ChooseStrategy(s) ==
    /\ TotalSelections = 0
    /\ SetStrategy(s)

NextBalance ==
    \/ \E s \in {"RoundRobin", "WeightedRoundRobin"} : ChooseStrategy(s)
    \/ SelectAndCount

SpecBalance == InitBalance /\ [][NextBalance]_vars

\* C19: under RoundRobin with N selectable backends, after K selections
\* each of them has been selected floor(K/N) or ceil(K/N) times.
C19_RoundRobinEven ==
    (strategy = "RoundRobin" /\ Selectable # {}) =>
        LET N == Cardinality(Selectable)
            K == TotalSelections
        IN  \A b \in Selectable :
                sel_count[b] \in {K \div N, (K + N - 1) \div N}

C19_Witness ==
    /\ strategy = "RoundRobin"
    /\ Cardinality(Selectable) = 2
    /\ TotalSelections = 3
    /\ \E b \in Selectable : sel_count[b] = 2

\* C20 as stated: under WeightedRoundRobin, after any K selections the
\* count of each backend differs from K * w_i / sum(w) by at most 1
\* (compared after multiplying by sum(w)).
C20_WeightedShareWithinOne ==
    (strategy = "WeightedRoundRobin" /\ Selectable # {}) =>
        LET K == TotalSelections IN
        \A b \in Selectable :
            LET d == sel_count[b] * TotalWeight - K * weight[b] IN
            d <= TotalWeight /\ -d <= TotalWeight

\* C20: under WeightedRoundRobin from the initial state, whenever the
\* number K of selections is a multiple of sum(w) / gcd(w), each backend
\* has been selected exactly K * w_i / sum(w) times.
C20_WeightedShareExactPerCycle ==
    (strategy = "WeightedRoundRobin" /\ Selectable # {}) =>
        LET K == TotalSelections IN
        K % (TotalWeight \div WeightGcd) = 0 =>
            \A b \in Selectable : sel_count[b] * TotalWeight = K * weight[b]

C20_Witness ==
    /\ strategy = "WeightedRoundRobin"
    /\ Cardinality(Selectable) = 2
    /\ \E a, b \in Selectable :
        /\ weight[a] = 3 /\ weight[b] = 5
        /\ sel_count[a] = 3 /\ sel_count[b] = 5

\* ---------------------------------------------------------------------
\* C21: in every state of the load balancer, a select_backend call under
\* LeastConnections returns the backend that the same call under
\* RoundRobin returns and leaves the same round-robin counter and the same
\* weighted state; the load balancer has no field counting requests in
\* flight, so equal states stay equal over any sequence of calls.
C21_LeastConnectionsIsRoundRobin ==
    get_healthy_backends # <<>> =>
        \A nanos \in 0..1 :
            select_by_strategy("LeastConnections", get_healthy_backends, nanos)
                = select_by_strategy("RoundRobin", get_healthy_backends, nanos)

C21_Witness ==
    /\ strategy = "LeastConnections"
    /\ Len(get_healthy_backends) = 2
    /\ last_sel.ok /\ last_sel.name = "None"
    /\ last_sel.backend = get_healthy_backends[2]
    /\ round_robin_index >= 2

\* ---------------------------------------------------------------------
\* the router over backends of which some are disabled, with check_now
\* changing what the health checker reports
InitRouterSpec ==
    /\ enabled \in [BackendNames -> BOOLEAN]
    /\ weight = [b \in BackendNames |-> 1]
    /\ InitEndpoints
    /\ \E cfg \in RouterConfigs : InitRouter(cfg)
    /\ InitBatcher(BatchConfigDefault)
    /\ InitLockTasks([t \in LockTasks |-> "process_batch"])
    /\ InitHttpBackend
    /\ InitGenerate
    /\ InitMonitor
    /\ InitGrpc
    /\ InitDriver
    /\ InitPure
    /\ InitLoadBalancer
    /\ InitHealth
    /\ InitRequestQueue(QueueConfigDefault)

NextRouter ==
    \/ \E name \in BackendNames, ok \in BOOLEAN : CheckNow(name, ok)
    \/ \E name \in NameArgs, model \in ModelArgs : RouteCall(name, model)

SpecRouter == InitRouterSpec /\ [][NextRouter]_vars

\* a backend that is registered, enabled and reported healthy
Usable(b) == b \in BackendNames /\ enabled[b] /\ is_healthy(b)

\* the model heuristic has a backend to offer
ModelHit(model) ==
    model # "None" /\ \E b \in BackendNames : Usable(b) /\ ModelMatches(model, b)

IsRouteStep == router'.last # router.last

\* C22: route answers with the first rule that matches, in the order
\* explicit name, model heuristic, default, fallback: an explicit name
\* decides alone; the default is used only when the heuristic offers no
\* backend; the fallback only when the default is absent or not usable.
C22_RulePriority ==
    [][IsRouteStep =>
        LET c == router'.last
            cfg == router.config
        IN  /\ c.name # "None" =>
                /\ c.out.rule = "explicit"
                /\ c.out.ok => c.out.backend = c.name
                /\ ~c.out.ok =>
                      c.out.err.kind \in {"BackendNotFound", "NoHealthyBackends"}
            /\ (c.name = "None" /\ ModelHit(c.model)) =>
                /\ c.out.rule = "model"
                /\ c.out.ok /\ ModelMatches(c.model, c.out.backend)
            /\ c.out.rule = "default" <=>
                /\ c.name = "None"
                /\ ~ModelHit(c.model)
                /\ Usable(cfg.default_backend)
            /\ c.out.rule = "default" =>
                    c.out.ok /\ c.out.backend = cfg.default_backend
            /\ c.out.rule \in {"fallback", "none"} <=>
                /\ c.name = "None"
                /\ ~ModelHit(c.model)
                /\ ~Usable(cfg.default_backend)
            /\ c.out.rule = "fallback" => cfg.fallback_enabled
            /\ c.out.rule = "none" => ~cfg.fallback_enabled
      ]_vars

C22_Witness ==
    /\ router.last.out.rule = "default"
    /\ router.last.model = "A"
    /\ router.last.out.backend = "B"
    /\ router.config.fallback_enabled

\* C23: a backend returned by route is registered, enabled and reported
\* healthy when it is selected; without such a backend route answers
\* NoHealthyBackends, or BackendNotFound when an explicit name was given.
C23_RoutedIsUsable ==
    [][IsRouteStep =>
        LET c == router'.last IN
        /\ c.out.ok => Usable(c.out.backend)
        /\ ~c.out.ok =>
              \/ c.out.err.kind = "NoHealthyBackends"
              \/ c.out.err.kind = "BackendNotFound" /\ c.name # "None"
        /\ (\A b \in BackendNames : ~Usable(b)) => ~c.out.ok
      ]_vars

C23_Witness ==
    /\ ~router.last.out.ok
    /\ router.last.name = "None"
    /\ router.last.out.err = NoHealthyBackends("No available backends")
    /\ router.config.default_backend = "A"
    /\ \E b \in BackendNames : Usable(b)

\* ---------------------------------------------------------------------
\* the batcher under concurrent add_request, should_process and
\* process_batch calls, with the clock advancing
InitBatcherSpec ==
    /\ enabled = [b \in BackendNames |-> TRUE]
    /\ weight = [b \in BackendNames |-> 1]
    /\ InitEndpoints
    /\ InitRouter(RouterConfigDefault)
    /\ \E cfg \in BatchConfigs : InitBatcher(cfg)
    /\ InitLockTasks([t \in LockTasks |-> "process_batch"])
    /\ InitHttpBackend
    /\ InitGenerate
    /\ InitMonitor
    /\ InitGrpc
    /\ InitDriver
    /\ InitPure
    /\ InitLoadBalancer
    /\ InitHealth
    /\ InitRequestQueue(QueueConfigDefault)

NextBatcher ==
    \/ \E r \in BatchRequests : AddRequest(r)
    \/ ShouldProcess
    \/ \E p \in Processors : ProcessDrain(p)
    \/ \E p \in Processors : ProcessStamp(p)
    \/ \E p \in Processors : ProcessGenerate(p)
    \/ \E p \in Processors, ok \in BOOLEAN : ProcessSend(p, ok)
    \/ BatcherTick

SpecBatcher == InitBatcherSpec /\ [][NextBatcher]_vars

\* occurrences of x in a sequence
Occurrences(s, x) == Cardinality({i \in 1..Len(s) : s[i] = x})

\* the batches in which request r stands, drained and not yet answered
InBatches(r) ==
    SumOver([p \in Processors |-> Occurrences(bproc[p].batched, r)],
            Processors)

\* request r is the one for which some process_batch call awaits generate
BeingGenerated(r) ==
    \E p \in Processors : bproc[p].pc = "await" /\ Head(bproc[p].batched) = r

\* C25: with batching enabled, whatever the interleaving of add_request and
\* process_batch calls, an added request stands in exactly one place: the
\* pending list, one batch, or answered; generate is called once for it (not
\* before it is drained), and the one value sent on its channel is the
\* result of its own call.
C25_EachRequestServedOnce ==
    batcher.config.enabled =>
        \A r \in BatchRequests :
            /\ r > bobs.added =>
                  /\ bobs.resp[r] = NoResponse
                  /\ bobs.calls[r] = 0
                  /\ Occurrences(batcher.pending_requests, r) = 0
                  /\ InBatches(r) = 0
            /\ r <= bobs.added =>
                  /\ Occurrences(batcher.pending_requests, r) + InBatches(r)
                        + bobs.resp[r].sends = 1
                  /\ bobs.calls[r] =
                        IF bobs.resp[r].sends = 1 \/ BeingGenerated(r)
                        THEN 1 ELSE 0
                  /\ bobs.resp[r].sends = 1 =>
                        /\ bobs.resp[r].tx = "sent"
                        /\ bobs.resp[r].value \in {GenerateOk(r), GenerateErr(r)}
                  /\ bobs.resp[r].sends = 0 => bobs.resp[r].tx = "held"

C25_Witness ==
    /\ batcher.config.enabled
    /\ bobs.added = NumBatchRequests
    /\ bobs.resp[1].value = GenerateOk(1)
    /\ bobs.resp[2].value = GenerateErr(2)
    /\ \A r \in BatchRequests : bobs.resp[r].sends = 1 /\ bobs.calls[r] = 1

IsShouldProcessStep == bobs'.should.seq # bobs.should.seq

\* C26: should_process answers true exactly when the pending list is
\* non-empty and either holds max_batch_size requests or max_wait has
\* elapsed since the last batch completed; the call changes neither the
\* list nor the timestamp.
C26_ShouldProcessSinceCompletion ==
    [][IsShouldProcessStep =>
        /\ bobs'.should.result <=>
              /\ Len(batcher.pending_requests) > 0
              /\ \/ Len(batcher.pending_requests) >= batcher.config.max_batch_size
                 \/ bobs.since_completion >= batcher.config.max_wait_ms
        /\ batcher' = batcher
      ]_vars

\* C27: with enabled=false the pending list stays empty whatever is added,
\* should_process answers false, and process_batch calls no backend.
C27_DisabledIsPassThrough ==
    ~batcher.config.enabled =>
        /\ batcher_pending_count(batcher) = 0
        /\ ~should_process(batcher)
        /\ ~bobs.should.result
        /\ \A r \in BatchRequests : bobs.calls[r] = 0
        /\ \A p \in Processors : bproc[p] = IdleProcessor

C27_Witness ==
    /\ ~batcher.config.enabled
    /\ bobs.added = NumBatchRequests
    /\ bobs.should.seq = 1
    /\ bobs.returned_empty
    /\ batcher.last_batch_time >= batcher.config.max_wait_ms

\* C28: a generate call made for a request, by a queue worker or by
\* process_batch, never stays awaited for longer than the queue's timeout.
C28_GenerateBoundedByTimeout ==
    /\ \A r \in ArmedWorkers : welapsed[r] <= WorkerTimeout
    /\ \A p \in Processors :
          bproc[p].pc = "await" => bproc[p].elapsed <= WorkerTimeout

\* ---------------------------------------------------------------------
\* NumLockTasks tasks, each running one of the functions again and again
InitLockSpec ==
    /\ enabled = [b \in BackendNames |-> TRUE]
    /\ weight = [b \in BackendNames |-> 1]
    /\ InitEndpoints
    /\ InitRouter(RouterConfigDefault)
    /\ InitBatcher(BatchConfigDefault)
    /\ \E progs \in [LockTasks -> ProgramNames] : InitLockTasks(progs)
    /\ InitHttpBackend
    /\ InitGenerate
    /\ InitMonitor
    /\ InitGrpc
    /\ InitDriver
    /\ InitPure
    /\ InitLoadBalancer
    /\ InitHealth
    /\ InitRequestQueue(QueueConfigDefault)

NextLocks == \E t \in LockTasks : TaskStep(t)

SpecLocks == InitLockSpec /\ [][NextLocks]_vars

\* the task is suspended on a network call
AwaitsNetwork(t) == OpOf(t).op = "await" /\ OpOf(t).on \in NetworkAwaits

\* C29: a task that awaits backend.generate, a probe request or a channel
\* dial holds no lock.
C29_NoLockAcrossNetworkAwait ==
    \A t \in LockTasks : AwaitsNetwork(t) => lock_task[t].held = {}

C29_Witness ==
    /\ lock_task[1].prog = "process_batch" /\ AwaitsNetwork(1)
    /\ lock_task[2].prog = "should_process"
    /\ lock_task[2].held = {[lock |-> "pending_requests", mode |-> "write"]}

\* ---------------------------------------------------------------------
\* requests without a backend name served one after the other by backends
\* A and B, with connect errors on A and no health probe
InitTraffic ==
    /\ enabled = [b \in BackendNames |-> TRUE]
    /\ weight = [b \in BackendNames |-> 1]
    /\ InitEndpoints
    /\ InitRouter(RouterConfigDefault)
    /\ InitBatcher(BatchConfigDefault)
    /\ InitLockTasks([t \in LockTasks |-> "process_batch"])
    /\ InitHttpBackend
    /\ InitGenerate
    /\ InitMonitor
    /\ InitGrpc
    /\ InitDriver
    /\ InitPure
    /\ InitLoadBalancer
    /\ InitHealth
    /\ InitRequestQueue(QueueConfigDefault)

NextTraffic ==
    \/ \E s \in Strategies : SetStrategy(s)
    \/ \E nanos \in 0..1 : TrafficSelect(nanos)
    \/ \E ok \in BOOLEAN : GenerateOnA(ok)
    \/ GenerateOnB

SpecTraffic == InitTraffic /\ [][NextTraffic]_vars

IsTrafficSelectStep == http.serving = "None" /\ http'.serving # "None"

\* C24: with A and B enabled and reported healthy, once three connect
\* errors in a row have occurred on A in generate calls, with no probe in
\* between, the next request without a backend name goes to B.
C24_ConnectErrorsDivertTraffic ==
    [][(/\ IsTrafficSelectStep
        /\ \A b \in BackendNames : Usable(b)
        /\ http.connect_errors >= 3) => http'.serving = "B"]_vars

\* ---------------------------------------------------------------------
\* the cursor of one backend under concurrent selectors, while failing
\* probes take endpoints out of the healthy set
InitCursor ==
    /\ enabled = [b \in BackendNames |-> TRUE]
    /\ weight = [b \in BackendNames |-> 1]
    /\ InitEndpoints
    /\ InitRouter(RouterConfigDefault)
    /\ InitBatcher(BatchConfigDefault)
    /\ InitLockTasks([t \in LockTasks |-> "process_batch"])
    /\ InitHttpBackend
    /\ InitGenerate
    /\ InitMonitor
    /\ InitGrpc
    /\ InitDriver
    /\ InitPure
    /\ InitLoadBalancer
    /\ InitHealth
    /\ InitRequestQueue(QueueConfigDefault)

NextCursor ==
    \/ \E c \in Selectors : GetNextEndpoint(c)
    \/ \E e \in Endpoints : EndpointProbe(e, FALSE)

SpecCursor == InitCursor /\ [][NextCursor]_vars

\* a selection that found the healthy set of the selection before it
IsRepeatSelection ==
    /\ http'.observed # http.observed \/ http'.picks # http.picks
    /\ http.observed.by # 0
    /\ http'.observed.healthy = http.observed.healthy

\* over the K selections since the healthy set last differed, each of the m
\* healthy endpoints was chosen floor(K/m) or ceil(K/m) times, the others
\* never
EvenOverHealthy ==
    LET m == Cardinality(http.observed.healthy)
        K == SumOver(http.picks, Endpoints)
    IN  http.observed.by # 0 =>
            \A e \in Endpoints :
                IF e \in http.observed.healthy
                THEN http.picks[e] \in {K \div m, (K + m - 1) \div m}
                ELSE http.picks[e] = 0

\* C30 as stated: with the healthy set unchanged, two selections in a row
\* never observe the same cursor value, and the endpoints are chosen evenly.
C30_NeverSameCursorValue ==
    /\ []EvenOverHealthy
    /\ [][IsRepeatSelection => http'.observed.index # http.observed.index]_vars

\* C30: with the healthy set unchanged, a selection observes the successor
\* modulo m of the value the selection before it observed (no advance is
\* lost, and with m >= 2 the two values differ), and the endpoints are
\* chosen evenly.
C30_CursorAdvancesByOne ==
    /\ []EvenOverHealthy
    /\ [][IsRepeatSelection =>
            LET m == Cardinality(http.observed.healthy) IN
            /\ http'.observed.index = (http.observed.index + 1) % m
            /\ m >= 2 => http'.observed.index # http.observed.index
         ]_vars

C30_Witness ==
    /\ http.observed.healthy = {1, 3}
    /\ http.observed.by = 2
    /\ http.picks = [e \in Endpoints |-> IF e = 2 THEN 0
                                          ELSE IF e = 1 THEN 3 ELSE 2]

\* ---------------------------------------------------------------------
\* generate calls made one after the other on one HTTP backend, each
\* attempt ending in any of the outcomes
InitGenerateSpec ==
    /\ enabled = [b \in BackendNames |-> TRUE]
    /\ weight = [b \in BackendNames |-> 1]
    /\ InitEndpoints
    /\ InitRouter(RouterConfigDefault)
    /\ InitBatcher(BatchConfigDefault)
    /\ InitLockTasks([t \in LockTasks |-> "process_batch"])
    /\ InitHttpBackend
    /\ InitGenerate
    /\ InitMonitor
    /\ InitGrpc
    /\ InitDriver
    /\ InitPure
    /\ InitLoadBalancer
    /\ InitHealth
    /\ InitRequestQueue(QueueConfigDefault)

NextGenerate ==
    \/ GenerateBegin
    \/ \E outcome \in AttemptOutcomes : GenerateAttempt(outcome)

SpecGenerate == InitGenerateSpec /\ [][NextGenerate]_vars

\* the outcomes of the attempts made so far
OutcomesTried == {gen.tried[i].outcome : i \in 1..Len(gen.tried)}

\* C31: a generate call whose attempts all reached the endpoint and ended
\* in a non-2xx status or an unparseable body leaves the endpoint's
\* consecutive_failures and healthy flag as they were when it was chosen.
C31_LogicalFailureLeavesEndpoint ==
    (/\ gen.pc = "done"
     /\ gen.some
     /\ OutcomesTried \subseteq {"status", "unparseable"})
        => endpoints[gen.endpoint] = gen.before

\* C32: one generate call tries the paths in the fixed order on the chosen
\* endpoint, at most four of them; a connect or timeout error is recorded on
\* the endpoint and ends the call; a non-2xx or unparseable answer leads to
\* the next path; the first parsed 2xx answer marks the endpoint healthy and
\* ends the call.
C32_PathsTriedInOrder ==
    LET n == Len(gen.tried)
        stops(o) == o \in {"parsed", "connect", "timeout"}
    IN  /\ n <= 4
        /\ \A i \in 1..n : gen.tried[i].path = UrlsToTry[i]
        /\ \A i \in 1..n : i < n => ~stops(gen.tried[i].outcome)
        /\ gen.pc = "trying" =>
              /\ n < 4
              /\ \A i \in 1..n : ~stops(gen.tried[i].outcome)
              /\ gen.marks = <<>>
        /\ (gen.pc = "done" /\ gen.some) =>
              /\ n >= 1
              /\ stops(gen.tried[n].outcome) \/ n = 4
              /\ gen.tried[n].outcome = "parsed" =>
                    gen.marks = <<"healthy">> /\ gen.result = GenerateOk(0)
              /\ gen.tried[n].outcome \in {"connect", "timeout"} =>
                    gen.marks = <<"unhealthy">> /\ gen.result = GenerateErr(0)

C32_Witness ==
    /\ gen.pc = "done"
    /\ Len(gen.tried) = 3
    /\ gen.tried[1].outcome = "status"
    /\ gen.tried[2].outcome = "unparseable"
    /\ gen.tried[3].outcome = "parsed"
    /\ gen.tried[3].path = "/api/generate"
    /\ gen.before.consecutive_failures = 2
    /\ endpoints[gen.endpoint] = BackendEndpointNew

IsGenerateBeginStep == gen.pc \in {"idle", "done"} /\ gen' # gen

\* C33: generate never chooses an endpoint whose healthy flag is false when
\* it is chosen; with every endpoint unhealthy it fails with
\* NoHealthyBackends(name), makes no attempt and changes neither an
\* endpoint nor the cursor.
C33_OnlyHealthyEndpointChosen ==
    /\ [](gen.result = NoHealthyBackends(HttpBackendName) =>
            gen.tried = <<>> /\ gen.marks = <<>> /\ gen.pc = "done")
    /\ [][IsGenerateBeginStep =>
            /\ gen'.some => endpoints[gen'.endpoint].healthy
            /\ gen'.some <=> (\E e \in Endpoints : endpoints[e].healthy)
            /\ ~gen'.some =>
                  /\ gen'.result = NoHealthyBackends(HttpBackendName)
                  /\ endpoints' = endpoints
                  /\ http'.current_endpoint_index = http.current_endpoint_index
         ]_vars

C33_Witness ==
    /\ gen.result = NoHealthyBackends(HttpBackendName)
    /\ \A e \in Endpoints : ~endpoints[e].healthy
    /\ gen.tried = <<>>
    /\ gen.pc = "done"

\* ---------------------------------------------------------------------
\* start and stop called in any order while the spawned tasks probe
NextMonitor ==
    \/ MonitorStart
    \/ MonitorStop
    \/ \E t \in ProbeTasks : MonitorProbe(t)
    \/ \E t \in ProbeTasks : MonitorUpdate(t)

SpecMonitor == InitGenerateSpec /\ [][NextMonitor]_vars

\* C34: the health monitor has at most one live probe task at any time,
\* whatever the sequence of start and stop calls; once stop has returned no
\* probe task is alive and no periodic update is made.
C34_OneProbeTask ==
    /\ Cardinality(LiveTasks(monitor)) <= 1
    /\ monitor.stopped => LiveTasks(monitor) = {}
    /\ ~monitor.late_update

\* ---------------------------------------------------------------------
\* concurrent get_channel calls on a backend whose dials succeed
NextChannel ==
    \/ \E c \in GrpcCallers, index \in GrpcEndpoints :
          GetChannelRead(c, index, "get")
    \/ \E c \in GrpcCallers : GetChannelConnect(c)

SpecChannel == InitGenerateSpec /\ [][NextChannel]_vars

\* the channels dialed to an endpoint
DialedTo(index) == {ch \in 1..grpc.dials : grpc.chan_of[ch] = index}

IsGetChannelReadStep(c) ==
    /\ grpc.calls[c].pc \in {"idle", "done"}
    /\ grpc'.calls[c] # grpc.calls[c]

\* C35: with dials that succeed, concurrent get_channel(index) calls leave
\* one channel to that endpoint in the slot, every caller gets a channel
\* whose connection stands, and a call that finds a channel in the slot
\* returns that channel without dialing.
C35_RacesConvergeToOneChannel ==
    /\ [](/\ \A index \in GrpcEndpoints :
               DialedTo(index) # {} => grpc.channels[index] \in DialedTo(index)
          /\ \A c \in GrpcCallers :
               grpc.calls[c].pc = "done" =>
                  /\ grpc.calls[c].ok
                  /\ grpc.calls[c].channel \in DialedTo(grpc.calls[c].index)
                  /\ grpc.calls[c].channel \in grpc.live
                  /\ grpc.calls[c].dialed <=> grpc.calls[c].cached = 0)
    /\ [][\A c \in GrpcCallers, index \in GrpcEndpoints :
            (IsGetChannelReadStep(c) /\ grpc'.calls[c].index = index
                /\ grpc.channels[index] # 0)
            => /\ grpc'.dials = grpc.dials
               /\ grpc'.channels = grpc.channels
               /\ grpc'.calls[c].pc = "done"
               /\ grpc'.calls[c].channel = grpc.channels[index]
         ]_vars

C35_Witness ==
    /\ \A c \in GrpcCallers : grpc.calls[c].pc = "done"
    /\ \A c \in GrpcCallers : grpc.calls[c].index = 1
    /\ grpc.calls[1].dialed /\ grpc.calls[1].channel = 2
    /\ ~grpc.calls[2].dialed /\ grpc.calls[2].channel = 2
    /\ grpc.dials = 2
    /\ grpc.channels[1] = 2

\* ---------------------------------------------------------------------
\* concurrent probes while the servers come and go
NextProbe ==
    \/ \E c \in GrpcCallers, index \in GrpcEndpoints :
          GetChannelRead(c, index, "probe")
    \/ \E c \in GrpcCallers : GetChannelConnect(c)
    \/ \E index \in GrpcEndpoints : ServerDown(index)
    \/ \E index \in GrpcEndpoints : ServerUp(index)

SpecProbe == InitGenerateSpec /\ [][NextProbe]_vars

\* C36: the probe of an endpoint succeeds exactly when a channel to it can
\* be established now or its cached channel is live; a probe that fails
\* leaves the cache slot empty.
C36_ProbeTellsChannelState ==
    \A c \in GrpcCallers :
        (grpc.calls[c].pc = "done" /\ grpc.calls[c].kind = "probe") =>
            (grpc.calls[c].ok <=> grpc.calls[c].could)

\* ---------------------------------------------------------------------
\* the driving loop over an enabled batcher while requests are added
DriverConfigs ==
    [max_batch_size : 1..MaxBatchSize, max_wait_ms : {MaxWaitMs},
     enabled : {TRUE}]

InitDriverSpec ==
    /\ enabled = [b \in BackendNames |-> TRUE]
    /\ weight = [b \in BackendNames |-> 1]
    /\ InitEndpoints
    /\ InitRouter(RouterConfigDefault)
    /\ \E cfg \in DriverConfigs : InitBatcher(cfg)
    /\ InitLockTasks([t \in LockTasks |-> "process_batch"])
    /\ InitHttpBackend
    /\ InitGenerate
    /\ InitMonitor
    /\ InitGrpc
    /\ InitDriver
    /\ InitPure
    /\ InitLoadBalancer
    /\ InitHealth
    /\ InitRequestQueue(QueueConfigDefault)

NextDriver ==
    \/ \E r \in BatchRequests : RunAddRequest(r)
    \/ RunShouldProcess
    \/ RunProcessBatch
    \/ \E ok \in BOOLEAN : RunGenerateReturns(ok)
    \/ RunSleep

SpecDriver == InitDriverSpec /\ [][NextDriver]_vars

\* the loop is never starved and every generate call returns
SpecDriverFair == SpecDriver /\ WF_vars(RunStep)

\* C37: no batch dispatched by process_batch holds more than max_batch_size
\* requests, however add_request is interleaved with the driving loop.
C37_BatchWithinMaxBatchSize ==
    /\ driver.largest <= batcher.config.max_batch_size
    /\ Len(driver.batch) <= batcher.config.max_batch_size

\* C38: with batching enabled, the loop running fairly and every generate
\* call returning, every request given to add_request eventually has had
\* exactly one result sent on its channel, also when it was added while a
\* batch was being served (a later batch picks it up); no channel ever
\* gets a second result.
C38_EveryRequestAnswered ==
    /\ \A r \in BatchRequests :
          (bobs.added >= r) ~>
              (bobs.resp[r].tx = "sent" /\ bobs.resp[r].sends = 1)
    /\ [](\A r \in BatchRequests :
            /\ bobs.resp[r].sends <= 1
            /\ (r \in driver.during /\ bobs.resp[r].tx = "sent") =>
                  \E q \in BatchRequests :
                      /\ driver.served_in[q] # 0
                      /\ driver.served_in[q] < driver.served_in[r])

C38_Witness ==
    /\ 2 \in driver.during
    /\ bobs.resp[1].tx = "sent" /\ driver.served_in[1] = 1
    /\ bobs.resp[2].tx = "sent" /\ driver.served_in[2] = 2
    /\ bobs.resp[2].sends = 1

\* ---------------------------------------------------------------------
\* calls of select_weighted_round_robin on lists of any length and weights,
\* one after the other, in a build with or without overflow checks
InitCallsSpec ==
    /\ enabled = [b \in BackendNames |-> TRUE]
    /\ weight = [b \in BackendNames |-> 1]
    /\ InitEndpoints
    /\ InitRouter(RouterConfigDefault)
    /\ InitBatcher(BatchConfigDefault)
    /\ InitLockTasks([t \in LockTasks |-> "process_batch"])
    /\ InitHttpBackend
    /\ InitGenerate
    /\ InitMonitor
    /\ InitGrpc
    /\ InitDriver
    /\ overflow_checks \in BOOLEAN
    /\ wrr_call = NoWrrCall
    /\ coalesce = NoCoalesce
    /\ InitLoadBalancer
    /\ InitHealth
    /\ InitRequestQueue(QueueConfigDefault)

NextWrr == \E weights \in WeightLists : WrrCall(weights)

SpecWrr == InitCallsSpec /\ [][NextWrr]_vars

\* C39: select_weighted_round_robin returns a member of the list it was
\* given, for every non-empty list of backends with positive weights and
\* every state that earlier calls, on any list, have left.
C39_ReturnsMemberOfList ==
    wrr_call.made =>
        /\ ~wrr_call.panic
        /\ wrr_call.index \in 0..(Len(wrr_call.weights) - 1)

\* ---------------------------------------------------------------------
\* combine_requests and split_response on batches of any length and n
NextCoalesce == \E ns \in NLists : Coalesce(ns)

SpecCoalesce == InitCallsSpec /\ [][NextCoalesce]_vars

\* the exact sum of the n of the first k requests
RECURSIVE SumN(_, _)
SumN(requests, k) ==
    IF k = 0 THEN 0 ELSE SumN(requests, k - 1) + requests[k].n

RECURSIVE Flatten(_, _)
Flatten(responses, k) ==
    IF k = 0 THEN <<>> ELSE Flatten(responses, k - 1) \o responses[k].images

\* C40: combine_requests yields the first request with n replaced by the
\* sum of all n; split_response on a response with that many images gives
\* one response per request, in order, request i getting the n_i images
\* that follow those of the requests before it, all of the images in all.
C40_CombineSumsSplitSlices ==
    coalesce.made =>
        LET requests == coalesce.requests
            k == Len(requests)
        IN  /\ ~coalesce.panic
            /\ coalesce.combined = [requests[1] EXCEPT !.n = SumN(requests, k)]
            /\ Len(coalesce.images) = SumN(requests, k)
            /\ Len(coalesce.responses) = k
            /\ \A i \in 1..k :
                  coalesce.responses[i].images =
                      SubSeq(coalesce.images, SumN(requests, i - 1) + 1,
                             SumN(requests, i))
            /\ Flatten(coalesce.responses, k) = coalesce.images
====
